---- MODULE Spec2Model ----
(***************************************************************************)
(* Timeline fan-out and multi-store feed assembly of the Instagram clone:  *)
(* the Express handlers of routes/users.js (follow, unfollow), of the      *)
(* reels router (getFeed, createPost) and of the likes router (like,       *)
(* unlike, getCount), over Cassandra (reels, user_reels, timeline), Neo4j  *)
(* (FOLLOWS), MongoDB (follows, likes) and Redis (likes:<reel>,            *)
(* like:<reel>:<user>).                                                    *)
(*                                                                         *)
(* Every handler is an async function: it runs atomically between two      *)
(* awaits, so a request is a record with a program counter `pc` that names *)
(* the store call it awaits next, and one action performs that call        *)
(* together with the synchronous code up to the next await.  The store     *)
(* calls are pure operators on the record of all stores (DB); the actions  *)
(* apply them to the variables, and Run applies them to completion to give *)
(* the result of a call that runs alone.                                   *)
(***************************************************************************)
EXTENDS Integers, Sequences, FiniteSets, TLC

\* ------------------------------------------------------------- bounds
\* number of reel ids (UUIDs) that createPost can draw
MaxPosts == 2
\* number of requests that may be in flight at once
MaxInFlight == 2
\* the like counter is kept within -MaxCount..MaxCount by the guards
MaxCount == 2
\* un-awaited MongoDB likes writes that may be pending at once
MaxPending == 2
\* number of reels that exist in the runs of the counter cache
MaxLiked == 1
\* highest page number a feed request asks for
MaxPage == 2

\* ---------------------------------------------------- program constants
\* const { userId, page = 1, limit = 10 } = req.query
DefaultLimit == 10
\* read-repair: SELECT ... FROM user_reels ... LIMIT 20
RepairLimit == 20
\* follow backfill: SELECT ... FROM user_reels ... LIMIT 50
BackfillLimit == 50

Users == {"u1", "u2", "u3"}
\* the users who send follow and unfollow requests (u3 is only followed)
Fans == {"u1", "u2"}
NoUser == ""
PostIds == 1..MaxPosts
Times == 1..MaxPosts
\* every id that may appear in a follow edge: the users above and two more, who
\* are only followed
Crowd == Users \cup {"u4", "u5"}
Pairs == Crowd \X Crowd
Limits == {1, DefaultLimit}
Pages == 1..MaxPage
\* the calls that may throw, by store; the INSERTs into timeline are told apart from
\* the other Cassandra calls: "fanout" those of createPost and follow, "repair" those
\* of getFeed; "traverse" is the friends-of-friends query of suggestions, told apart
\* from the other Neo4j calls
Stores == {"cassandra", "fanout", "repair", "neo4j", "traverse", "mongo", "redis", "shadow"}

VARIABLES
    reels,        \* Cassandra reels: set of [reel_id, user_id, created_at]
    userReels,    \* Cassandra user_reels: set of [user_id, created_at, reel_id]
    timeline,     \* Cassandra timeline: set of [user_id, created_at, reel_id, author_id]
    mongoUsers,   \* MongoDB users: the ids that have a document
    neoNodes,     \* Neo4j (:User) nodes
    neoEdges,     \* Neo4j [:FOLLOWS]: number of relationships per <<follower, followed>>
    mongoFollows, \* MongoDB follows: number of documents per <<followerId, followedId>>
    neo4jUp,      \* isNeo4jConnected()
    likeKeys,     \* Redis: the reels whose likes:<reel> key exists
    likeVal,      \* Redis: the integer held by likes:<reel>
    likeFlag,     \* Redis: the <<reel, user>> whose like:<reel>:<user> key exists
    likesLog,     \* MongoDB likes: number of documents per <<reelId, userId>>
    shadowQ,      \* MongoDB likes writes dispatched and not awaited, not yet applied
    clock,        \* the server's Date
    usedIds,      \* the UUIDs Uuid.random() has returned
    req,          \* the requests: slot -> request record
    run           \* the run's environment, fixed by Init: the stores whose calls may fail
                  \* (faulty), how many requests may be in flight at once (par), the kinds
                  \* of request that may overlap (overlap), and whether MongoDB applies a
                  \* pending likes write before the server does anything else (eager)

stores == <<reels, userReels, timeline, mongoUsers, neoNodes, neoEdges, mongoFollows, neo4jUp,
            likeKeys, likeVal, likeFlag, likesLog, shadowQ, clock, usedIds>>
vars == <<reels, userReels, timeline, mongoUsers, neoNodes, neoEdges, mongoFollows, neo4jUp,
          likeKeys, likeVal, likeFlag, likesLog, shadowQ, clock, usedIds, req, run>>

\* The record of all stores, the argument and result of the store calls.
DB ==
    [reels |-> reels, userReels |-> userReels, timeline |-> timeline,
     mongoUsers |-> mongoUsers, neoNodes |-> neoNodes, neoEdges |-> neoEdges, mongoFollows |-> mongoFollows,
     neo4jUp |-> neo4jUp, likeKeys |-> likeKeys, likeVal |-> likeVal,
     likeFlag |-> likeFlag, likesLog |-> likesLog, shadowQ |-> shadowQ,
     clock |-> clock, usedIds |-> usedIds]

Commit(d) ==
    /\ reels' = d.reels
    /\ userReels' = d.userReels
    /\ timeline' = d.timeline
    /\ mongoUsers' = d.mongoUsers
    /\ neoNodes' = d.neoNodes
    /\ neoEdges' = d.neoEdges
    /\ mongoFollows' = d.mongoFollows
    /\ neo4jUp' = d.neo4jUp
    /\ likeKeys' = d.likeKeys
    /\ likeVal' = d.likeVal
    /\ likeFlag' = d.likeFlag
    /\ likesLog' = d.likesLog
    /\ shadowQ' = d.shadowQ
    /\ clock' = d.clock
    /\ usedIds' = d.usedIds

\* the stores of a fresh deployment
EmptyDB ==
    [reels |-> {}, userReels |-> {}, timeline |-> {},
     mongoUsers |-> {}, neoNodes |-> {}, neoEdges |-> [p \in Pairs |-> 0],
     mongoFollows |-> [p \in Pairs |-> 0],
     neo4jUp |-> TRUE, likeKeys |-> {}, likeVal |-> [p \in PostIds |-> 0],
     likeFlag |-> {}, likesLog |-> [k \in PostIds \X Users |-> 0],
     shadowQ |-> [o \in {"insert", "delete"} \X PostIds \X Users |-> 0],
     clock |-> 1, usedIds |-> {}]

\* every user has signed up through POST /api/users while Neo4j was connected
SignedUp == [EmptyDB EXCEPT !.mongoUsers = Users, !.neoNodes = Users]

\* ------------------------------------------------------------ requests
NoReq ==
    [kind |-> "none", pc |-> "done", a |-> NoUser, b |-> NoUser, reel |-> 0,
     now |-> 0, limit |-> 0, neo |-> FALSE, todo |-> {}, cur |-> NoUser,
     rows |-> <<>>, refs |-> <<>>, status |-> 0, count |-> 0, hasCount |-> FALSE,
     liked |-> FALSE, msg |-> "", out |-> <<>>, suggestions |-> <<>>, via |-> "",
     page |-> 0]

Res(d, q) == [d |-> d, q |-> q]

\* res.json(...) / res.status(s).json(...): the handler returns
Reply(q, status, msg) == [q EXCEPT !.pc = "done", !.status = status, !.msg = msg]

Goto(q, pc) == [q EXCEPT !.pc = pc]

Max(x, y) == IF x > y THEN x ELSE y
Min(x, y) == IF x < y THEN x ELSE y

\* ------------------------------------------------------------ Redis calls
\* GET likes:<reel>: the stored integer, or null when the key does not exist
RedisHas(d, reel) == reel \in d.likeKeys

\* INCR / DECR likes:<reel>: a missing key counts as 0; the new value is returned
RedisAdd(d, reel, n) ==
    [d EXCEPT !.likeKeys = @ \cup {reel},
              !.likeVal = [@ EXCEPT ![reel] = (IF reel \in d.likeKeys THEN @ ELSE 0) + n]]

\* SET likes:<reel> '0'
RedisSetZero(d, reel) ==
    [d EXCEPT !.likeKeys = @ \cup {reel}, !.likeVal = [@ EXCEPT ![reel] = 0]]

\* likesCountStr ? (parseInt(likesCountStr) || 0) : 0
ParseCount(d, reel) == IF RedisHas(d, reel) THEN d.likeVal[reel] ELSE 0

\* mongo.collection('likes').insertOne / deleteOne, dispatched and not awaited
Dispatch(d, op, reel, user) ==
    [d EXCEPT !.shadowQ = [@ EXCEPT ![<<op, reel, user>>] = @ + 1]]

Pending(d) ==
    LET ks == DOMAIN d.shadowQ
        RECURSIVE Sum(_)
        Sum(S) == IF S = {} THEN 0
                  ELSE LET k == CHOOSE x \in S : TRUE IN d.shadowQ[k] + Sum(S \ {k})
    IN Sum(ks)

\* ------------------------------------------------------- like (POST /:reelId)
StartLike(d, reel, user) ==
    IF user = NoUser
    THEN Res(d, Reply([NoReq EXCEPT !.kind = "like", !.reel = reel], 400, "userId is required"))
    ELSE Res(d, [NoReq EXCEPT !.kind = "like", !.reel = reel, !.a = user, !.pc = "likeGet"])

\* mutant of LikeGet: the flag is read and not tested
LikeGetUnchecked(d, q, ok) ==
    IF ~ok THEN Res(d, Reply(q, 500, "Failed to like reel"))
    ELSE Res(d, Goto(q, "likeIncr"))

\* const alreadyLiked = await redis.get(userLikeKey)
LikeGet(d, q, ok) ==
    IF ~ok THEN Res(d, Reply(q, 500, "Failed to like reel"))
    ELSE IF <<q.reel, q.a>> \in d.likeFlag
         THEN Res(d, [Reply(q, 200, "Already liked") EXCEPT !.liked = TRUE])
         ELSE Res(d, Goto(q, "likeIncr"))

\* const newCount = await redis.incr(key)
LikeIncr(d, q, ok) ==
    IF ~ok THEN Res(d, Reply(q, 500, "Failed to like reel"))
    ELSE LET d1 == RedisAdd(d, q.reel, 1)
         IN Res(d1, [Goto(q, "likeSet") EXCEPT !.count = d1.likeVal[q.reel]])

\* mutant of LikeSet: the insertOne is awaited, the document is in the collection
\* when the reply is sent
LikeSetAwaitsLog(d, q, ok) ==
    IF ~ok THEN Res(d, Reply(q, 500, "Failed to like reel"))
    ELSE Res([d EXCEPT !.likeFlag = @ \cup {<<q.reel, q.a>>},
                       !.likesLog = [@ EXCEPT ![<<q.reel, q.a>>] = @ + 1]],
             [Reply(q, 200, "") EXCEPT !.hasCount = TRUE, !.liked = TRUE])

\* await redis.set(userLikeKey, '1', { EX }); insertOne dispatched; res.json
LikeSet(d, q, ok) ==
    IF ~ok THEN Res(d, Reply(q, 500, "Failed to like reel"))
    ELSE Res(Dispatch([d EXCEPT !.likeFlag = @ \cup {<<q.reel, q.a>>}], "insert", q.reel, q.a),
             [Reply(q, 200, "") EXCEPT !.hasCount = TRUE, !.liked = TRUE])

\* --------------------------------------------------- unlike (DELETE /:reelId)
StartUnlike(d, reel, user) ==
    IF user = NoUser
    THEN Res(d, Reply([NoReq EXCEPT !.kind = "unlike", !.reel = reel], 400, "userId is required"))
    ELSE Res(d, [NoReq EXCEPT !.kind = "unlike", !.reel = reel, !.a = user, !.pc = "unlikeGet"])

\* const alreadyLiked = await redis.get(userLikeKey)
UnlikeGet(d, q, ok) ==
    IF ~ok THEN Res(d, Reply(q, 500, "Failed to unlike reel"))
    ELSE IF <<q.reel, q.a>> \notin d.likeFlag
         THEN Res(d, Reply(q, 200, "Not liked"))
         ELSE Res(d, Goto(q, "unlikeDecr"))

\* const newCount = await redis.decr(key)
UnlikeDecr(d, q, ok) ==
    IF ~ok THEN Res(d, Reply(q, 500, "Failed to unlike reel"))
    ELSE LET d1 == RedisAdd(d, q.reel, -1)
         IN Res(d1, [Goto(q, "unlikeDel") EXCEPT !.count = d1.likeVal[q.reel]])

\* await redis.del(userLikeKey); deleteOne dispatched; likesCount = Math.max(0, newCount)
UnlikeDel(d, q, ok) ==
    IF ~ok THEN Res(d, Reply(q, 500, "Failed to unlike reel"))
    ELSE Res(Dispatch([d EXCEPT !.likeFlag = @ \ {<<q.reel, q.a>>}], "delete", q.reel, q.a),
             [Reply(q, 200, "") EXCEPT !.hasCount = TRUE, !.count = Max(0, q.count)])

\* ------------------------------------------------------ getCount (GET /:reelId)
StartGetCount(d, reel, user) ==
    Res(d, [NoReq EXCEPT !.kind = "getCount", !.reel = reel, !.a = user, !.pc = "countGet"])

\* const likesCountStr = await redis.get(key); likesCount parsed
CountGet(d, q, ok) ==
    IF ~ok THEN Res(d, Reply(q, 500, "Failed to get likes"))
    ELSE LET q1 == [q EXCEPT !.count = ParseCount(d, q.reel), !.hasCount = TRUE]
         IN IF q.a = NoUser THEN Res(d, Reply(q1, 200, "")) ELSE Res(d, Goto(q1, "countFlag"))

\* liked = !!(await redis.get(userLikeKey))
CountFlag(d, q, ok) ==
    IF ~ok THEN Res(d, Reply([q EXCEPT !.hasCount = FALSE, !.count = 0], 500, "Failed to get likes"))
    ELSE Res(d, [Reply(q, 200, "") EXCEPT !.liked = (<<q.reel, q.a>> \in d.likeFlag)])

\* -------------------------------------- the un-awaited MongoDB likes writes
\* insertOne adds a document; deleteOne removes one matching document, if any;
\* a failed write is logged by its .catch and changes nothing
ShadowWrite(d, o, ok) ==
    LET k == <<o[2], o[3]>>
        d1 == [d EXCEPT !.shadowQ = [@ EXCEPT ![o] = @ - 1]]
    IN IF ~ok THEN d1
       ELSE IF o[1] = "insert"
            THEN [d1 EXCEPT !.likesLog = [@ EXCEPT ![k] = @ + 1]]
            ELSE [d1 EXCEPT !.likesLog = [@ EXCEPT ![k] = Max(0, @ - 1)]]

\* --------------------------------------------------------- Cassandra calls
\* a clustering order with created_at ascending
BeforeAscending(x, y) ==
    \/ x.created_at < y.created_at
    \/ x.created_at = y.created_at /\ x.reel_id < y.reel_id

\* CLUSTERING ORDER BY (created_at DESC), then reel_id in its own (ascending) order
Before(x, y) ==
    \/ x.created_at > y.created_at
    \/ x.created_at = y.created_at /\ x.reel_id < y.reel_id

\* the rows of one partition in clustering order
RECURSIVE Ordered(_)
Ordered(S) ==
    IF S = {} THEN <<>>
    ELSE LET h == CHOOSE x \in S : \A y \in S \ {x} : Before(x, y)
         IN <<h>> \o Ordered(S \ {h})

\* LIMIT n
Take(rows, n) == SubSeq(rows, 1, Min(n, Len(rows)))

\* SELECT reel_id, author_id, created_at FROM timeline WHERE user_id = ?
\* ORDER BY created_at DESC LIMIT ?
TimelineQuery(d, user, limit) ==
    Take(Ordered({e \in d.timeline : e.user_id = user}), limit)

\* SELECT reel_id, created_at FROM user_reels WHERE user_id = ?
\* ORDER BY created_at DESC LIMIT ?
UserReelsQuery(d, user, limit) ==
    Take(Ordered({e \in d.userReels : e.user_id = user}), limit)

\* a timeline whose primary key is (user_id, created_at) only
TimelineInsertKeyNoReel(d, user, reel, author, at) ==
    LET e == [user_id |-> user, created_at |-> at, reel_id |-> reel, author_id |-> author]
        same(x) == x.user_id = user /\ x.created_at = at
    IN [d EXCEPT !.timeline = {x \in @ : ~same(x)} \cup {e}]

\* PRIMARY KEY (user_id, created_at, reel_id): an INSERT of an existing key
\* overwrites the row
TimelineInsert(d, user, reel, author, at) ==
    LET e == [user_id |-> user, created_at |-> at, reel_id |-> reel, author_id |-> author]
        same(x) == x.user_id = user /\ x.created_at = at /\ x.reel_id = reel
    IN [d EXCEPT !.timeline = {x \in @ : ~same(x)} \cup {e}]

\* INSERT INTO reels: PRIMARY KEY reel_id
ReelsInsert(d, reel, user, at) ==
    [d EXCEPT !.reels = {x \in @ : x.reel_id # reel}
                        \cup {[reel_id |-> reel, user_id |-> user, created_at |-> at]}]

\* INSERT INTO user_reels: PRIMARY KEY (user_id, created_at, reel_id)
UserReelsInsert(d, user, reel, at) ==
    [d EXCEPT !.userReels = @ \cup {[user_id |-> user, created_at |-> at, reel_id |-> reel]}]

\* SELECT * FROM reels WHERE reel_id = ?: is there a row
ReelFound(d, reel) == \E x \in d.reels : x.reel_id = reel

\* ------------------------------------------------- Neo4j and MongoDB follows
\* MATCH (follower:User {id}), (followed:User {id}) MERGE (follower)-[:FOLLOWS]->(followed)
NeoMerge(d, follower, followed) ==
    IF follower \in d.neoNodes /\ followed \in d.neoNodes
    THEN [d EXCEPT !.neoEdges = [@ EXCEPT ![<<follower, followed>>] = Max(1, @)]]
    ELSE d

\* MATCH (follower)-[r:FOLLOWS]->(followed) DELETE r
NeoDelete(d, follower, followed) ==
    [d EXCEPT !.neoEdges = [@ EXCEPT ![<<follower, followed>>] = 0]]

\* MATCH (u:User {id})<-[:FOLLOWS]-(follower:User) RETURN follower.id
NeoFollowers(d, user) == {u \in Crowd : d.neoEdges[<<u, user>>] > 0}

\* an insertOne in place of the upsert
MongoInsert(d, follower, followed) ==
    [d EXCEPT !.mongoFollows = [@ EXCEPT ![<<follower, followed>>] = @ + 1]]

\* follows.updateOne({followerId, followedId}, {$set}, {upsert: true})
MongoUpsert(d, follower, followed) ==
    [d EXCEPT !.mongoFollows = [@ EXCEPT ![<<follower, followed>>] = Max(1, @)]]

\* follows.deleteOne({followerId, followedId})
MongoDelete(d, follower, followed) ==
    [d EXCEPT !.mongoFollows = [@ EXCEPT ![<<follower, followed>>] = Max(0, @ - 1)]]

\* follows.find({followedId}).map(f => f.followerId)
MongoFollowers(d, user) == {u \in Crowd : d.mongoFollows[<<u, user>>] > 0}

\* follows.find({followerId}).map(f => f.followedId)
MongoFollowing(d, user) == {u \in Crowd : d.mongoFollows[<<user, u>>] > 0}

\* followersCount / followingCount = follows.countDocuments(...)
RECURSIVE SumOver(_, _)
SumOver(f, S) ==
    IF S = {} THEN 0 ELSE LET k == CHOOSE x \in S : TRUE IN f[k] + SumOver(f, S \ {k})

FollowersCount(d, user) == SumOver(d.mongoFollows, {p \in Pairs : p[2] = user})
FollowingCount(d, user) == SumOver(d.mongoFollows, {p \in Pairs : p[1] = user})

\* the row of a query as the handlers keep it: { reelId, authorId, createdAt }
Ref(row, author) == [reel_id |-> row.reel_id, author_id |-> author, created_at |-> row.created_at]

RECURSIVE MapRefs(_, _)
MapRefs(rows, owner) ==
    IF rows = <<>> THEN <<>>
    ELSE <<Ref(Head(rows), owner)>> \o MapRefs(Tail(rows), owner)

RECURSIVE TimelineRefs(_)
TimelineRefs(rows) ==
    IF rows = <<>> THEN <<>>
    ELSE <<Ref(Head(rows), Head(rows).author_id)>> \o TimelineRefs(Tail(rows))

\* ------------------------------------------------ createUser (POST /api/users)
\* the username of a user is its id, so no username is taken by another user
StartCreateUser(d, id) ==
    LET q == [NoReq EXCEPT !.kind = "createUser", !.a = id, !.neo = d.neo4jUp]
    IN IF id = NoUser THEN Res(d, Reply(q, 400, "id and username are required"))
       ELSE Res(d, Goto(q, "userFind"))

\* const existingUser = await users.findOne({ id })
UserFind(d, q, ok) ==
    IF ~ok THEN Res(d, Reply(q, 500, "Failed to create user")) ELSE Res(d, Goto(q, "userTaken"))

\* const usernameTaken = await users.findOne({ username, id: { $ne: id } })
UserTaken(d, q, ok) ==
    IF ~ok THEN Res(d, Reply(q, 500, "Failed to create user")) ELSE Res(d, Goto(q, "userMongo"))

\* await users.updateOne({ id }, { $set }, { upsert: true })
UserMongo(d, q, ok) ==
    IF ~ok THEN Res(d, Reply(q, 500, "Failed to create user"))
    ELSE LET d1 == [d EXCEPT !.mongoUsers = @ \cup {q.a}]
         IN IF q.neo THEN Res(d1, Goto(q, "userNeo"))
            ELSE Res(d1, Reply(q, 200, "User created/updated successfully"))

\* if (neo4j): MERGE (u:User {id}); an error is logged
UserNeo(d, q, ok) ==
    Res(IF ok THEN [d EXCEPT !.neoNodes = @ \cup {q.a}] ELSE d,
        Reply(q, 200, "User created/updated successfully"))

\* --------------------------------------- follow (POST /api/users/:userId/follow)
\* a follow without the self-follow check
StartFollowAnyPair(d, follower, followed) ==
    LET q == [NoReq EXCEPT !.kind = "follow", !.a = follower, !.b = followed, !.neo = d.neo4jUp]
    IN IF follower = NoUser THEN Res(d, Reply(q, 400, "followerId is required"))
       ELSE Res(d, Goto(q, IF d.neo4jUp THEN "followNeo" ELSE "followMongo"))

StartFollow(d, follower, followed) ==
    LET q == [NoReq EXCEPT !.kind = "follow", !.a = follower, !.b = followed, !.neo = d.neo4jUp]
    IN IF follower = NoUser THEN Res(d, Reply(q, 400, "followerId is required"))
       ELSE IF followed = follower THEN Res(d, Reply(q, 400, "Cannot follow yourself"))
       ELSE Res(d, Goto(q, IF d.neo4jUp THEN "followNeo" ELSE "followMongo"))

\* a follow that answers 500 when the Neo4j MERGE throws
FollowNeoPropagates(d, q, ok) ==
    IF ~ok THEN Res(d, Reply(q, 500, "Failed to follow user"))
    ELSE Res(NeoMerge(d, q.a, q.b), Goto(q, "followMongo"))

\* await session.run(MATCH ... MERGE ...): an error is logged, the handler goes on
FollowNeo(d, q, ok) ==
    Res(IF ok THEN NeoMerge(d, q.a, q.b) ELSE d, Goto(q, "followMongo"))

\* await follows.updateOne(..., { upsert: true }): an error returns 500
FollowMongo(d, q, ok) ==
    IF ~ok THEN Res(d, Reply(q, 500, "Failed to create follow relationship"))
    ELSE Res(MongoUpsert(d, q.a, q.b), Goto(q, "followReels"))

\* const reelsResult = await cassandra.execute(reelsQuery, [userId])
FollowReels(d, q, ok) ==
    IF ~ok THEN Res(d, Reply(q, 500, "Failed to follow user"))
    ELSE LET rows == UserReelsQuery(d, q.b, BackfillLimit)
         IN IF rows = <<>> THEN Res(d, Reply(q, 200, "Followed successfully"))
            ELSE Res(d, [Goto(q, "followInsert") EXCEPT !.rows = rows])

\* a backfill that stops after the first row
FollowInsertFirstOnly(d, q, ok) ==
    LET row == Head(q.rows)
        d1 == IF ok THEN TimelineInsert(d, q.a, row.reel_id, q.b, row.created_at) ELSE d
    IN Res(d1, Reply([q EXCEPT !.rows = <<>>], 200, "Followed successfully"))

\* mutant of FollowInsert: the row is stamped with the time of the latest post
\* instead of the reel's created_at
FollowInsertStampsNow(d, q, ok) ==
    LET row == Head(q.rows)
        d1 == IF ok THEN TimelineInsert(d, q.a, row.reel_id, q.b, d.clock) ELSE d
        q1 == [q EXCEPT !.rows = Tail(q.rows)]
    IN IF q1.rows = <<>> THEN Res(d1, Reply(q1, 200, "Followed successfully"))
       ELSE Res(d1, q1)

\* for (const row of reelsResult.rows): INSERT INTO timeline, an error is logged
FollowInsert(d, q, ok) ==
    LET row == Head(q.rows)
        d1 == IF ok THEN TimelineInsert(d, q.a, row.reel_id, q.b, row.created_at) ELSE d
        q1 == [q EXCEPT !.rows = Tail(q.rows)]
    IN IF q1.rows = <<>> THEN Res(d1, Reply(q1, 200, "Followed successfully"))
       ELSE Res(d1, q1)

\* ----------------------------------- unfollow (DELETE /api/users/:userId/follow)
StartUnfollow(d, follower, followed) ==
    LET q == [NoReq EXCEPT !.kind = "unfollow", !.a = follower, !.b = followed, !.neo = d.neo4jUp]
    IN IF follower = NoUser THEN Res(d, Reply(q, 400, "followerId is required"))
       ELSE Res(d, Goto(q, IF d.neo4jUp THEN "unfollowNeo" ELSE "unfollowMongo"))

\* an unfollow that answers 500 when the Neo4j DELETE throws
UnfollowNeoPropagates(d, q, ok) ==
    IF ~ok THEN Res(d, Reply(q, 500, "Failed to unfollow user"))
    ELSE Res(NeoDelete(d, q.a, q.b), Goto(q, "unfollowMongo"))

\* await session.run(MATCH ... DELETE r): an error is logged, the handler goes on
UnfollowNeo(d, q, ok) ==
    Res(IF ok THEN NeoDelete(d, q.a, q.b) ELSE d, Goto(q, "unfollowMongo"))

\* mutant of UnfollowMongo: the rows of the unfollowed author are removed from the
\* follower's partition
UnfollowMongoCleans(d, q, ok) ==
    IF ~ok THEN Res(d, Reply(q, 500, "Failed to remove follow relationship"))
    ELSE Res([MongoDelete(d, q.a, q.b) EXCEPT
                 !.timeline = {e \in @ : ~(e.user_id = q.a /\ e.author_id = q.b)}],
             Reply(q, 200, "Unfollowed successfully"))

\* await follows.deleteOne(...): an error returns 500
UnfollowMongo(d, q, ok) ==
    IF ~ok THEN Res(d, Reply(q, 500, "Failed to remove follow relationship"))
    ELSE Res(MongoDelete(d, q.a, q.b), Reply(q, 200, "Unfollowed successfully"))

\* ------------------------------- suggestions (GET /api/users/:userId/suggestions)
\* the orders in which a query without a sort of its own may list the users
TieOrders ==
    {o \in [1..Cardinality(Crowd) -> Crowd] :
        \A i, j \in 1..Cardinality(Crowd) : i # j => o[i] # o[j]}

Pos(order, u) == CHOOSE i \in DOMAIN order : order[i] = u

\* ORDER BY mutualConnections DESC / .sort((a, b) => b[1] - a[1]): the users of S by
\* descending count, users of equal count in the order in which they came
RECURSIVE Ranked(_, _, _)
Ranked(count, S, order) ==
    IF S = {} THEN <<>>
    ELSE LET c == CHOOSE x \in S : \A y \in S \ {x} :
                      \/ count[x] > count[y]
                      \/ count[x] = count[y] /\ Pos(order, x) < Pos(order, y)
         IN <<[id |-> c, count |-> count[c]]>> \o Ranked(count, S \ {c}, order)

\* MATCH (me)-[:FOLLOWS]->(friend)-[:FOLLOWS]->(suggestion) WHERE NOT (me)-[:FOLLOWS]->
\* (suggestion) AND suggestion.id <> $userId WITH suggestion, count(friend) ... LIMIT
NeoSuggestions(d, user, limit, order) ==
    LET friends == {f \in Crowd : d.neoEdges[<<user, f>>] > 0}
        count == [c \in Crowd |->
                     SumOver(d.neoEdges, {p \in Pairs : p[1] \in friends /\ p[2] = c})]
        S == {c \in Crowd : count[c] > 0 /\ c # user /\ c \notin friends}
    IN Take(Ranked(count, S, order), limit)

\* friendsFollows.forEach(...): suggestionCounts, sorted and sliced to the limit
MongoSuggestions(d, user, following, limit, order) ==
    LET count == [c \in Crowd |->
                     SumOver(d.mongoFollows, {p \in Pairs : p[1] \in following /\ p[2] = c})]
        S == {c \in Crowd : count[c] > 0 /\ c # user /\ c \notin following}
    IN Take(Ranked(count, S, order), limit)

StartSuggest(d, user, limit) ==
    LET q == [NoReq EXCEPT !.kind = "suggest", !.a = user, !.limit = limit, !.neo = d.neo4jUp]
    IN Res(d, Goto(q, IF d.neo4jUp THEN "suggestNeo" ELSE "suggestFollows"))

\* if (neo4j): await session.run(...); an error is logged and leaves suggestions = []
SuggestNeo(d, q, ok, order) ==
    LET found == IF ok THEN NeoSuggestions(d, q.a, q.limit, order) ELSE <<>>
    IN IF found = <<>> THEN Res(d, Goto(q, "suggestFollows"))
       ELSE Res(d, [Goto(q, "suggestEnrich") EXCEPT !.suggestions = found, !.via = "neo4j"])

\* if (suggestions.length === 0): myFollows = await follows.find({ followerId })
SuggestFollows(d, q, ok) ==
    IF ~ok \/ MongoFollowing(d, q.a) = {} THEN Res(d, Reply(q, 200, ""))
    ELSE Res(d, [Goto(q, "suggestFriends") EXCEPT !.todo = MongoFollowing(d, q.a)])

\* friendsFollows = await follows.find({ followerId: { $in: followingIds } })
SuggestFriends(d, q, ok, order) ==
    LET sorted == IF ok THEN MongoSuggestions(d, q.a, q.todo, q.limit, order) ELSE <<>>
        q1 == [q EXCEPT !.todo = {}]
    IN IF sorted = <<>> THEN Res(d, Reply(q1, 200, ""))
       ELSE Res(d, [Goto(q1, "suggestNames") EXCEPT !.suggestions = sorted])

\* users = await users.find({ id: { $in: suggestedIds } }): the usernames; an error is
\* logged and leaves suggestions = []
SuggestNames(d, q, ok) ==
    IF ~ok THEN Res(d, Reply([q EXCEPT !.suggestions = <<>>], 200, ""))
    ELSE Res(d, [Goto(q, "suggestEnrich") EXCEPT !.via = "mongo"])

\* { ...userMap[s.id], mutualConnections }: the id comes from the user's document
Profile(d, e) == [id |-> IF e.id \in d.mongoUsers THEN e.id ELSE NoUser, count |-> e.count]

\* users = await users.find({ id: { $in: userIds } }); res.json({ suggestions })
SuggestEnrich(d, q, ok) ==
    IF ~ok THEN Res(d, Reply([q EXCEPT !.suggestions = <<>>], 500, "Failed to fetch suggestions"))
    ELSE Res(d, Reply([q EXCEPT !.suggestions =
                          [i \in DOMAIN q.suggestions |-> Profile(d, q.suggestions[i])]],
                      200, ""))

\* ------------------------------------------------- createPost (POST /api/reels)
\* a createPost without the check of userId and mediaUrl
StartCreatePostUnchecked(d, author, media, id, now) ==
    LET q == [NoReq EXCEPT !.kind = "createPost", !.a = author, !.neo = d.neo4jUp]
    IN Res([d EXCEPT !.usedIds = @ \cup {id}, !.clock = now],
           [Goto(q, "postReel") EXCEPT !.reel = id, !.now = now])

\* if (!userId || !mediaUrl) return 400; reelId = Uuid.random(); now = new Date()
StartCreatePost(d, author, media, id, now) ==
    LET q == [NoReq EXCEPT !.kind = "createPost", !.a = author, !.neo = d.neo4jUp]
    IN IF author = NoUser \/ ~media THEN Res(d, Reply(q, 400, "userId and mediaUrl are required"))
       ELSE Res([d EXCEPT !.usedIds = @ \cup {id}, !.clock = now],
                [Goto(q, "postReel") EXCEPT !.reel = id, !.now = now])

\* await INSERT INTO reels
PostReel(d, q, ok) ==
    IF ~ok THEN Res(d, Reply(q, 500, "Failed to create reel"))
    ELSE Res(ReelsInsert(d, q.reel, q.a, q.now), Goto(q, "postUserReel"))

\* await INSERT INTO user_reels
PostUserReel(d, q, ok) ==
    IF ~ok THEN Res(d, Reply(q, 500, "Failed to create reel"))
    ELSE Res(UserReelsInsert(d, q.a, q.reel, q.now),
             Goto(q, IF q.neo THEN "postNeo" ELSE "postMongo"))

\* mutant of Fan: the fan-out is left to run on its own and the handler goes on to
\* the counter and the reply
FanDetached(q, followers) ==
    Goto(q, "postRedis")

\* the followers are known: fan out, or go on to the counter when there are none
Fan(q, followers) ==
    IF followers = {} THEN Goto(q, "postRedis")
    ELSE [Goto(q, "postFan") EXCEPT !.todo = followers]

\* mutant of PostNeo: a failed lookup is final, MongoDB is asked only when Neo4j
\* answered with no follower
PostNeoNoFallback(d, q, ok) ==
    IF ~ok THEN Res(d, Fan(q, {}))
    ELSE IF NeoFollowers(d, q.a) = {} THEN Res(d, Goto(q, "postMongo"))
         ELSE Res(d, Fan(q, NeoFollowers(d, q.a)))

\* if (neo4j): followers from Neo4j; an error is logged and leaves followers = []
PostNeo(d, q, ok) ==
    LET followers == IF ok THEN NeoFollowers(d, q.a) ELSE {}
    IN IF followers = {} THEN Res(d, Goto(q, "postMongo")) ELSE Res(d, Fan(q, followers))

\* if (followers.length === 0): followers from MongoDB; an error leaves followers = []
PostMongo(d, q, ok) ==
    Res(d, Fan(q, IF ok THEN MongoFollowers(d, q.a) ELSE {}))

\* a fan-out that stops after the first follower
PostFanFirstOnly(d, q, ok, follower) ==
    LET d1 == IF ok THEN TimelineInsert(d, follower, q.reel, q.a, q.now) ELSE d
    IN Res(d1, Goto([q EXCEPT !.todo = {}], "postRedis"))

\* a fan-out that answers 500 when an INSERT throws
PostFanAbortOnError(d, q, ok, follower) ==
    IF ~ok THEN Res(d, Reply(q, 500, "Failed to create reel"))
    ELSE LET d1 == TimelineInsert(d, follower, q.reel, q.a, q.now)
             q1 == [q EXCEPT !.todo = @ \ {follower}]
         IN IF q1.todo = {} THEN Res(d1, Goto(q1, "postRedis")) ELSE Res(d1, q1)

\* for (const followerId of followers): INSERT INTO timeline, an error is logged
PostFan(d, q, ok, follower) ==
    LET d1 == IF ok THEN TimelineInsert(d, follower, q.reel, q.a, q.now) ELSE d
        q1 == [q EXCEPT !.todo = @ \ {follower}]
    IN IF q1.todo = {} THEN Res(d1, Goto(q1, "postRedis")) ELSE Res(d1, q1)

\* mutant of PostRedis: when the counter cannot be set, the rows of the reel are
\* deleted before the 500
PostRedisRollsBack(d, q, ok) ==
    IF ~ok
    THEN Res([d EXCEPT !.reels = {x \in @ : x.reel_id # q.reel},
                       !.userReels = {x \in @ : x.reel_id # q.reel},
                       !.timeline = {x \in @ : x.reel_id # q.reel}],
             Reply(q, 500, "Failed to create reel"))
    ELSE Res(RedisSetZero(d, q.reel), Reply(q, 200, "Reel created successfully"))

\* await redis.set(`likes:${reelIdString}`, '0'); res.json({ id })
PostRedis(d, q, ok) ==
    IF ~ok THEN Res(d, Reply(q, 500, "Failed to create reel"))
    ELSE Res(RedisSetZero(d, q.reel), Reply(q, 200, "Reel created successfully"))

\* ------------------------------------------------ getFeed (GET /api/reels/feed)
\* const { userId, page = 1, limit = 10 } = req.query; the offset computed from page
\* and limit is used by no query
StartGetFeedPage(d, owner, page, limit) ==
    LET q == [NoReq EXCEPT !.kind = "getFeed", !.a = owner, !.limit = limit, !.neo = d.neo4jUp,
                           !.page = page]
    IN IF owner = NoUser THEN Res(d, Reply(q, 400, "userId is required"))
       ELSE Res(d, Goto(q, "feedQuery"))

\* a request without a page parameter
StartGetFeed(d, owner, limit) == StartGetFeedPage(d, owner, 1, limit)

\* an empty feed answered as an error
AssembleNotFound(q, refs) ==
    IF refs = <<>> THEN Reply([q EXCEPT !.refs = <<>>], 404, "No reels found")
    ELSE [Goto(q, "feedEnrich") EXCEPT !.refs = refs, !.todo = DOMAIN refs, !.out = <<>>]

\* if (reelIds.length === 0) return res.json({ reels: [] }); else enrich
Assemble(q, refs) ==
    IF refs = <<>> THEN Reply([q EXCEPT !.refs = <<>>], 200, "No reels found")
    ELSE [Goto(q, "feedEnrich") EXCEPT !.refs = refs, !.todo = DOMAIN refs, !.out = <<>>]

\* mutant of FeedQuery: a page that is not full is repaired too
FeedQueryTopsUp(d, q, ok) ==
    IF ~ok THEN Res(d, Reply(q, 500, "Failed to fetch feed"))
    ELSE LET rows == TimelineQuery(d, q.a, q.limit)
         IN IF Len(rows) < q.limit THEN Res(d, Goto(q, "feedFollows"))
            ELSE Res(d, Assemble(q, TimelineRefs(rows)))

\* const timelineResult = await cassandra.execute(timelineQuery, [userId, limit])
FeedQuery(d, q, ok) ==
    IF ~ok THEN Res(d, Reply(q, 500, "Failed to fetch feed"))
    ELSE LET rows == TimelineQuery(d, q.a, q.limit)
         IN IF rows = <<>> THEN Res(d, Goto(q, "feedFollows"))
            ELSE Res(d, Assemble(q, TimelineRefs(rows)))

\* const follows = await follows.find({ followerId: userId }).toArray()
FeedFollows(d, q, ok) ==
    IF ~ok THEN Res(d, Reply(q, 500, "Failed to fetch feed"))
    ELSE LET followed == MongoFollowing(d, q.a)
         IN IF followed = {} THEN Res(d, Goto(q, "feedSelf"))
            ELSE Res(d, [Goto(q, "feedReels") EXCEPT !.todo = followed])

\* after one followed user is done: the next one, or the second timeline query
NextFollowed(q) == IF q.todo = {} THEN Goto(q, "feedRequery") ELSE Goto(q, "feedReels")

\* for (const followedUserId of followedUserIds): await user_reels query, LIMIT 20
FeedReels(d, q, ok, followed) ==
    IF ~ok THEN Res(d, Reply(q, 500, "Failed to fetch feed"))
    ELSE LET rows == UserReelsQuery(d, followed, RepairLimit)
             q1 == [q EXCEPT !.todo = @ \ {followed}, !.cur = followed, !.rows = rows]
         IN IF rows = <<>> THEN Res(d, NextFollowed(q1)) ELSE Res(d, Goto(q1, "feedInsert"))

\* mutant of FeedInsert: the row names the reader as the author
FeedInsertOwnerAsAuthor(d, q, ok) ==
    LET row == Head(q.rows)
        d1 == IF ok THEN TimelineInsert(d, q.a, row.reel_id, q.a, row.created_at) ELSE d
        q1 == [q EXCEPT !.rows = Tail(q.rows)]
    IN IF q1.rows = <<>> THEN Res(d1, NextFollowed(q1)) ELSE Res(d1, q1)

\* for (const row of userReelsResult.rows): INSERT INTO timeline, errors ignored
FeedInsert(d, q, ok) ==
    LET row == Head(q.rows)
        d1 == IF ok THEN TimelineInsert(d, q.a, row.reel_id, q.cur, row.created_at) ELSE d
        q1 == [q EXCEPT !.rows = Tail(q.rows)]
    IN IF q1.rows = <<>> THEN Res(d1, NextFollowed(q1)) ELSE Res(d1, q1)

\* mutant of FeedRequery: the second read returns everything the repair may have
\* written for one followed user
FeedRequeryRepairLimit(d, q, ok) ==
    IF ~ok THEN Res(d, Reply(q, 500, "Failed to fetch feed"))
    ELSE Res(d, Assemble(q, TimelineRefs(TimelineQuery(d, q.a, RepairLimit))))

\* const newTimelineResult = await cassandra.execute(timelineQuery, [userId, limit])
FeedRequery(d, q, ok) ==
    IF ~ok THEN Res(d, Reply(q, 500, "Failed to fetch feed"))
    ELSE Res(d, Assemble(q, TimelineRefs(TimelineQuery(d, q.a, q.limit))))

\* a self-view that reads the user's reels with the read-repair's LIMIT
FeedSelfRepairLimit(d, q, ok) ==
    IF ~ok THEN Res(d, Reply(q, 500, "Failed to fetch feed"))
    ELSE Res(d, Assemble(q, MapRefs(UserReelsQuery(d, q.a, RepairLimit), q.a)))

\* mutant of FeedSelf: the self-view writes the newest of the owner's reels into the
\* owner's partition
FeedSelfBackfills(d, q, ok) ==
    IF ~ok THEN Res(d, Reply(q, 500, "Failed to fetch feed"))
    ELSE LET rows == UserReelsQuery(d, q.a, q.limit)
             d1 == IF rows = <<>> THEN d
                   ELSE TimelineInsert(d, q.a, rows[1].reel_id, q.a, rows[1].created_at)
         IN Res(d1, Assemble(q, MapRefs(rows, q.a)))

\* no follows: the user's own reels, await user_reels query, LIMIT limit
FeedSelf(d, q, ok) ==
    IF ~ok THEN Res(d, Reply(q, 500, "Failed to fetch feed"))
    ELSE Res(d, Assemble(q, MapRefs(UserReelsQuery(d, q.a, q.limit), q.a)))

\* the references in the order in which their lookups completed
ValidAsCompleted(refs, out) == [k \in DOMAIN out |-> refs[out[k]]]

\* Promise.all resolves to the results in the order of reelIds, whatever the order
\* in which the lookups completed (out); enrichedReels.filter(Boolean) keeps the
\* references whose lookup did not return null
Valid(refs, out) ==
    LET kept(i) == \E k \in DOMAIN out : out[k] = i
        F[n \in 0..Len(refs)] ==
            IF n = 0 THEN <<>> ELSE IF kept(n) THEN Append(F[n - 1], refs[n]) ELSE F[n - 1]
    IN F[Len(refs)]

\* Promise.all(reelIds.map(...)): the lookup of reference i completes; it is null when
\* the reel is not found or when a call throws; after the last one, res.json
FeedEnrich(d, q, ok, i) ==
    LET hit == ok /\ ReelFound(d, q.refs[i].reel_id)
        q1 == [q EXCEPT !.todo = @ \ {i}, !.out = IF hit THEN Append(@, i) ELSE @]
    IN IF q1.todo # {} THEN Res(d, q1)
       ELSE Res(d, Reply([q1 EXCEPT !.refs = Valid(q.refs, q1.out), !.out = <<>>], 200, ""))

\* ----------------------------------------------------------- one store call
\* the loops over a list of users take its elements one by one
Picks(q) ==
    IF q.pc \in {"postFan", "feedReels", "feedEnrich"} THEN q.todo
    ELSE IF q.pc \in {"suggestNeo", "suggestFriends"} THEN TieOrders ELSE {NoUser}

\* the call a request awaits, performed with outcome ok (FALSE: the call throws)
Step(d, q, ok, x) ==
    CASE q.pc = "userFind" -> UserFind(d, q, ok)
      [] q.pc = "userTaken" -> UserTaken(d, q, ok)
      [] q.pc = "userMongo" -> UserMongo(d, q, ok)
      [] q.pc = "userNeo" -> UserNeo(d, q, ok)
      [] q.pc = "likeGet" -> LikeGet(d, q, ok)
      [] q.pc = "likeIncr" -> LikeIncr(d, q, ok)
      [] q.pc = "likeSet" -> LikeSet(d, q, ok)
      [] q.pc = "unlikeGet" -> UnlikeGet(d, q, ok)
      [] q.pc = "unlikeDecr" -> UnlikeDecr(d, q, ok)
      [] q.pc = "unlikeDel" -> UnlikeDel(d, q, ok)
      [] q.pc = "countGet" -> CountGet(d, q, ok)
      [] q.pc = "countFlag" -> CountFlag(d, q, ok)
      [] q.pc = "followNeo" -> FollowNeo(d, q, ok)
      [] q.pc = "followMongo" -> FollowMongo(d, q, ok)
      [] q.pc = "followReels" -> FollowReels(d, q, ok)
      [] q.pc = "followInsert" -> FollowInsert(d, q, ok)
      [] q.pc = "unfollowNeo" -> UnfollowNeo(d, q, ok)
      [] q.pc = "unfollowMongo" -> UnfollowMongo(d, q, ok)
      [] q.pc = "postReel" -> PostReel(d, q, ok)
      [] q.pc = "postUserReel" -> PostUserReel(d, q, ok)
      [] q.pc = "postNeo" -> PostNeo(d, q, ok)
      [] q.pc = "postMongo" -> PostMongo(d, q, ok)
      [] q.pc = "postFan" -> PostFan(d, q, ok, x)
      [] q.pc = "postRedis" -> PostRedis(d, q, ok)
      [] q.pc = "feedQuery" -> FeedQuery(d, q, ok)
      [] q.pc = "feedFollows" -> FeedFollows(d, q, ok)
      [] q.pc = "feedReels" -> FeedReels(d, q, ok, x)
      [] q.pc = "feedInsert" -> FeedInsert(d, q, ok)
      [] q.pc = "feedRequery" -> FeedRequery(d, q, ok)
      [] q.pc = "feedSelf" -> FeedSelf(d, q, ok)
      [] q.pc = "feedEnrich" -> FeedEnrich(d, q, ok, x)
      [] q.pc = "suggestNeo" -> SuggestNeo(d, q, ok, x)
      [] q.pc = "suggestFollows" -> SuggestFollows(d, q, ok)
      [] q.pc = "suggestFriends" -> SuggestFriends(d, q, ok, x)
      [] q.pc = "suggestNames" -> SuggestNames(d, q, ok)
      [] q.pc = "suggestEnrich" -> SuggestEnrich(d, q, ok)
      [] OTHER -> Res(d, q)

\* a started request run to its reply with no other request in between and no
\* failing call
RECURSIVE Run(_)
Run(r) ==
    IF r.q.pc = "done" THEN r
    ELSE Run(Step(r.d, r.q, TRUE, CHOOSE x \in Picks(r.q) : TRUE))

\* ------------------------------------------------------------- the actions
Slots == 1..MaxInFlight

InFlight == {s \in Slots : req[s].pc # "done"}

Quiet == InFlight = {}

\* a request of this kind may arrive now
CanStart(kind) ==
    /\ Cardinality(InFlight) < run.par
    /\ InFlight = {} \/ (kind \in run.overlap /\ \A s \in InFlight : req[s].kind \in run.overlap)

FreeSlot == CHOOSE s \in Slots : s \notin InFlight /\ \A t \in Slots \ InFlight : s <= t

\* the request in slot s moves as r says; a reply that was sent before is forgotten
Apply(s, r) ==
    /\ run.eager => Pending(DB) = 0
    /\ Commit(r.d)
    /\ req' = [t \in Slots |-> IF t = s THEN r.q
                               ELSE IF req[t].pc = "done" THEN NoReq ELSE req[t]]
    /\ UNCHANGED run

\* a request arrives: the handler runs up to its first await
Begin(r) == Apply(FreeSlot, r)

\* the outcomes of a call to a store: TRUE, and FALSE (the call throws) when the
\* store is one that may fail in this run
Oks(store) == IF store \in run.faulty THEN BOOLEAN ELSE {TRUE}

At(s, pc) == req[s].pc = pc

CreateUser(id) == CanStart("createUser") /\ Begin(StartCreateUser(DB, id))
UserFindStep(s) ==
    At(s, "userFind") /\ \E ok \in Oks("mongo") : Apply(s, UserFind(DB, req[s], ok))
UserTakenStep(s) ==
    At(s, "userTaken") /\ \E ok \in Oks("mongo") : Apply(s, UserTaken(DB, req[s], ok))
UserMongoStep(s) ==
    At(s, "userMongo") /\ \E ok \in Oks("mongo") : Apply(s, UserMongo(DB, req[s], ok))
UserNeoStep(s) ==
    At(s, "userNeo") /\ \E ok \in Oks("neo4j") : Apply(s, UserNeo(DB, req[s], ok))

Follow(a, b) == CanStart("follow") /\ Begin(StartFollow(DB, a, b))
FollowNeoStep(s) ==
    At(s, "followNeo") /\ \E ok \in Oks("neo4j") : Apply(s, FollowNeo(DB, req[s], ok))
FollowMongoStep(s) ==
    At(s, "followMongo") /\ \E ok \in Oks("mongo") : Apply(s, FollowMongo(DB, req[s], ok))
FollowReelsStep(s) ==
    At(s, "followReels") /\ \E ok \in Oks("cassandra") : Apply(s, FollowReels(DB, req[s], ok))
FollowInsertStep(s) ==
    At(s, "followInsert") /\ \E ok \in Oks("fanout") : Apply(s, FollowInsert(DB, req[s], ok))

Unfollow(a, b) == CanStart("unfollow") /\ Begin(StartUnfollow(DB, a, b))
UnfollowNeoStep(s) ==
    At(s, "unfollowNeo") /\ \E ok \in Oks("neo4j") : Apply(s, UnfollowNeo(DB, req[s], ok))
UnfollowMongoStep(s) ==
    At(s, "unfollowMongo") /\ \E ok \in Oks("mongo") : Apply(s, UnfollowMongo(DB, req[s], ok))

CreatePost(a, media) ==
    /\ CanStart("createPost")
    /\ \E id \in PostIds \ usedIds, now \in {clock, clock + 1} \cap Times :
          Begin(StartCreatePost(DB, a, media, id, now))
PostReelStep(s) ==
    At(s, "postReel") /\ \E ok \in Oks("cassandra") : Apply(s, PostReel(DB, req[s], ok))
PostUserReelStep(s) ==
    At(s, "postUserReel") /\ \E ok \in Oks("cassandra") : Apply(s, PostUserReel(DB, req[s], ok))
PostNeoStep(s) ==
    At(s, "postNeo") /\ \E ok \in Oks("neo4j") : Apply(s, PostNeo(DB, req[s], ok))
PostMongoStep(s) ==
    At(s, "postMongo") /\ \E ok \in Oks("mongo") : Apply(s, PostMongo(DB, req[s], ok))
PostFanStep(s) ==
    At(s, "postFan") /\ \E ok \in Oks("fanout"), x \in req[s].todo :
                            Apply(s, PostFan(DB, req[s], ok, x))
PostRedisStep(s) ==
    At(s, "postRedis") /\ \E ok \in Oks("redis") : Apply(s, PostRedis(DB, req[s], ok))

GetFeed(a, limit) == CanStart("getFeed") /\ Begin(StartGetFeed(DB, a, limit))
GetFeedPage(a, page, limit) ==
    CanStart("getFeed") /\ Begin(StartGetFeedPage(DB, a, page, limit))
FeedQueryStep(s) ==
    At(s, "feedQuery") /\ \E ok \in Oks("cassandra") : Apply(s, FeedQuery(DB, req[s], ok))
FeedFollowsStep(s) ==
    At(s, "feedFollows") /\ \E ok \in Oks("mongo") : Apply(s, FeedFollows(DB, req[s], ok))
FeedReelsStep(s) ==
    At(s, "feedReels") /\ \E ok \in Oks("cassandra"), x \in req[s].todo :
                              Apply(s, FeedReels(DB, req[s], ok, x))
FeedInsertStep(s) ==
    At(s, "feedInsert") /\ \E ok \in Oks("repair") : Apply(s, FeedInsert(DB, req[s], ok))
FeedRequeryStep(s) ==
    At(s, "feedRequery") /\ \E ok \in Oks("cassandra") : Apply(s, FeedRequery(DB, req[s], ok))
FeedSelfStep(s) ==
    At(s, "feedSelf") /\ \E ok \in Oks("cassandra") : Apply(s, FeedSelf(DB, req[s], ok))
FeedEnrichStep(s) ==
    At(s, "feedEnrich") /\ \E ok \in Oks("cassandra"), i \in req[s].todo :
                               Apply(s, FeedEnrich(DB, req[s], ok, i))

Suggest(a, limit) == CanStart("suggest") /\ Begin(StartSuggest(DB, a, limit))
SuggestNeoStep(s) ==
    At(s, "suggestNeo") /\ \E ok \in Oks("traverse"), order \in TieOrders :
                               Apply(s, SuggestNeo(DB, req[s], ok, order))
SuggestFollowsStep(s) ==
    At(s, "suggestFollows") /\ \E ok \in Oks("mongo") : Apply(s, SuggestFollows(DB, req[s], ok))
SuggestFriendsStep(s) ==
    At(s, "suggestFriends") /\ \E ok \in Oks("mongo"), order \in TieOrders :
                                   Apply(s, SuggestFriends(DB, req[s], ok, order))
SuggestNamesStep(s) ==
    At(s, "suggestNames") /\ \E ok \in Oks("mongo") : Apply(s, SuggestNames(DB, req[s], ok))
SuggestEnrichStep(s) ==
    At(s, "suggestEnrich") /\ \E ok \in Oks("mongo") : Apply(s, SuggestEnrich(DB, req[s], ok))

\* a client likes, unlikes or counts a reel it has seen
Like(reel, a) == ReelFound(DB, reel) /\ CanStart("like") /\ Begin(StartLike(DB, reel, a))
LikeGetStep(s) ==
    At(s, "likeGet") /\ \E ok \in Oks("redis") : Apply(s, LikeGet(DB, req[s], ok))
LikeIncrStep(s) ==
    /\ At(s, "likeIncr") /\ likeVal[req[s].reel] < MaxCount
    /\ \E ok \in Oks("redis") : Apply(s, LikeIncr(DB, req[s], ok))
LikeSetStep(s) ==
    /\ At(s, "likeSet") /\ Pending(DB) < MaxPending
    /\ \E ok \in Oks("redis") : Apply(s, LikeSet(DB, req[s], ok))

Unlike(reel, a) == ReelFound(DB, reel) /\ CanStart("unlike") /\ Begin(StartUnlike(DB, reel, a))
UnlikeGetStep(s) ==
    At(s, "unlikeGet") /\ \E ok \in Oks("redis") : Apply(s, UnlikeGet(DB, req[s], ok))
UnlikeDecrStep(s) ==
    /\ At(s, "unlikeDecr") /\ likeVal[req[s].reel] > -MaxCount
    /\ \E ok \in Oks("redis") : Apply(s, UnlikeDecr(DB, req[s], ok))
UnlikeDelStep(s) ==
    /\ At(s, "unlikeDel") /\ Pending(DB) < MaxPending
    /\ \E ok \in Oks("redis") : Apply(s, UnlikeDel(DB, req[s], ok))

GetCount(reel, a) == ReelFound(DB, reel) /\ CanStart("getCount") /\ Begin(StartGetCount(DB, reel, a))
CountGetStep(s) ==
    At(s, "countGet") /\ \E ok \in Oks("redis") : Apply(s, CountGet(DB, req[s], ok))
CountFlagStep(s) ==
    At(s, "countFlag") /\ \E ok \in Oks("redis") : Apply(s, CountFlag(DB, req[s], ok))

\* MongoDB applies one of the pending likes writes, or fails it
ShadowApply(o) ==
    /\ shadowQ[o] > 0
    /\ o[1] = "insert" => likesLog[<<o[2], o[3]>>] < MaxCount
    /\ \E ok \in Oks("shadow") : Commit(ShadowWrite(DB, o, ok))
    /\ UNCHANGED <<req, run>>

\* the flag like:<reel>:<user> was set with EX 30 days: Redis removes it when its
\* time is up; the counter key has no expiry
Expire(reel, a) ==
    /\ <<reel, a>> \in likeFlag
    /\ Commit([DB EXCEPT !.likeFlag = @ \ {<<reel, a>>}])
    /\ UNCHANGED <<req, run>>

\* the server starts again: connect() drops the reels table and creates it anew;
\* user_reels and timeline are created only if they do not exist
Connect ==
    /\ Quiet
    /\ Commit([DB EXCEPT !.reels = {}])
    /\ req' = [s \in Slots |-> NoReq]
    /\ UNCHANGED run

UserSteps(s) == UserFindStep(s) \/ UserTakenStep(s) \/ UserMongoStep(s) \/ UserNeoStep(s)

FollowSteps(s) ==
    \/ FollowNeoStep(s) \/ FollowMongoStep(s) \/ FollowReelsStep(s) \/ FollowInsertStep(s)

UnfollowSteps(s) == UnfollowNeoStep(s) \/ UnfollowMongoStep(s)

\* createPost up to the follower list, and from the counter on
PostSteps(s) ==
    \/ PostReelStep(s) \/ PostUserReelStep(s) \/ PostNeoStep(s) \/ PostMongoStep(s)
    \/ PostRedisStep(s)

\* getFeed but for the read-repair INSERT
FeedSteps(s) ==
    \/ FeedQueryStep(s) \/ FeedFollowsStep(s) \/ FeedReelsStep(s)
    \/ FeedRequeryStep(s) \/ FeedSelfStep(s) \/ FeedEnrichStep(s)

SuggestSteps(s) ==
    \/ SuggestNeoStep(s) \/ SuggestFollowsStep(s) \/ SuggestFriendsStep(s)
    \/ SuggestNamesStep(s) \/ SuggestEnrichStep(s)

LikeSteps(s) ==
    \/ LikeGetStep(s) \/ LikeIncrStep(s) \/ LikeSetStep(s)
    \/ UnlikeGetStep(s) \/ UnlikeDecrStep(s) \/ UnlikeDelStep(s)
    \/ CountGetStep(s) \/ CountFlagStep(s)

\* follow, unfollow, createPost and getFeed with no failing call.  FeedInsertStep is
\* left out because it is never enabled here: when no call fails, follow's backfill
\* and createPost's fan-out have written every row that read-repair would insert.
FeedNext ==
    \/ \E a \in Fans \cup {NoUser}, b \in Users : Follow(a, b) \/ Unfollow(a, b)
    \/ \E a \in Users \cup {NoUser}, media \in BOOLEAN : CreatePost(a, media)
    \/ \E a \in Users \cup {NoUser}, limit \in Limits : GetFeed(a, limit)
    \/ \E s \in Slots : FollowSteps(s) \/ UnfollowSteps(s) \/ PostSteps(s) \/ PostFanStep(s)
                          \/ FeedSteps(s)

\* users sign up, or do not; u1 and u2 follow and unfollow u3, u3 posts, u1 and u2
\* read their feeds
GraphNext ==
    \/ \E id \in Users \cup {NoUser} : CreateUser(id)
    \/ \E a \in Fans : Follow(a, "u3") \/ Unfollow(a, "u3")
    \/ CreatePost("u3", TRUE)
    \/ \E a \in Fans : GetFeed(a, DefaultLimit)
    \/ \E s \in Slots : UserSteps(s) \/ FollowSteps(s) \/ UnfollowSteps(s) \/ PostSteps(s)
                          \/ PostFanStep(s) \/ FeedSteps(s) \/ FeedInsertStep(s)

\* u1 and u2 follow and unfollow u3, u3 posts
FaultsNext ==
    \/ \E a \in Fans : Follow(a, "u3") \/ Unfollow(a, "u3")
    \/ CreatePost("u3", TRUE)
    \/ \E s \in Slots : FollowSteps(s) \/ UnfollowSteps(s) \/ PostSteps(s) \/ PostFanStep(s)

\* u1 follows u3, u3 posts, u1 reads its feed, the server starts again
EnrichNext ==
    \/ Follow("u1", "u3")
    \/ CreatePost("u3", TRUE)
    \/ \E limit \in Limits : GetFeed("u1", limit)
    \/ Connect
    \/ \E s \in Slots : FollowSteps(s) \/ PostSteps(s) \/ PostFanStep(s) \/ FeedSteps(s)

\* u1 follows, u2 and u3 post, u1 reads its feed
RepairNext ==
    \/ \E b \in Users \ {"u1"} : Follow("u1", b)
    \/ \E a \in Users \ {"u1"} : CreatePost(a, TRUE)
    \/ \E limit \in Limits : GetFeed("u1", limit)
    \/ \E s \in Slots : FollowSteps(s) \/ PostSteps(s) \/ PostFanStep(s) \/ FeedSteps(s)
                          \/ FeedInsertStep(s)

\* u1 follows u3, u3 posts, u1 reads its feed page by page
PagesNext ==
    \/ Follow("u1", "u3")
    \/ CreatePost("u3", TRUE)
    \/ \E page \in Pages, limit \in Limits : GetFeedPage("u1", page, limit)
    \/ \E s \in Slots : FollowSteps(s) \/ PostSteps(s) \/ PostFanStep(s) \/ FeedSteps(s)

\* the one reel of the counter runs
FirstPost ==
    /\ Cardinality(usedIds) < MaxLiked
    /\ CreatePost("u1", TRUE)

\* u1 posts one reel; u1 and u2 like, unlike and count it.  Nobody follows u1, so
\* createPost has no follower to fan out to and PostFanStep is never enabled.
LikesNext ==
    \/ FirstPost
    \/ \E a \in Fans, reel \in PostIds : Like(reel, a) \/ Unlike(reel, a) \/ GetCount(reel, a)
    \/ \E s \in Slots : PostSteps(s) \/ LikeSteps(s)
    \/ \E o \in DOMAIN shadowQ : ShadowApply(o)

\* u1 posts one reel; u1 and u2 like and count it, nobody unlikes
RaceNext ==
    \/ FirstPost
    \/ \E a \in Fans, reel \in PostIds : Like(reel, a) \/ GetCount(reel, a)
    \/ \E s \in Slots : \/ PostSteps(s)
                          \/ LikeGetStep(s) \/ LikeIncrStep(s) \/ LikeSetStep(s)
                          \/ CountGetStep(s) \/ CountFlagStep(s)
    \/ \E o \in DOMAIN shadowQ : ShadowApply(o)

\* the same, and the flags expire
ExpiryNext ==
    \/ RaceNext
    \/ \E a \in Fans, reel \in PostIds : Expire(reel, a)

\* the follow edges of the suggestion runs: u1 follows u2, u3 and u4; u2 and u3
\* follow u4 and u5; u2 follows u1 and u3
SuggestEdges ==
    {<<"u1", "u2">>, <<"u1", "u3">>, <<"u1", "u4">>, <<"u2", "u4">>, <<"u2", "u5">>,
     <<"u3", "u4">>, <<"u3", "u5">>, <<"u2", "u1">>, <<"u2", "u3">>}

\* users follow one another and u1 asks for suggestions.  Nobody has a reel, so the
\* backfill of follow finds nothing to insert.
SuggestNext ==
    \/ \E e \in SuggestEdges : Follow(e[1], e[2])
    \/ \E limit \in Limits : Suggest("u1", limit)
    \/ \E s \in Slots : \/ FollowNeoStep(s) \/ FollowMongoStep(s) \/ FollowReelsStep(s)
                          \/ SuggestSteps(s)

\* ------------------------------------------------------- the specifications
InitStores(d) ==
    /\ reels = d.reels /\ userReels = d.userReels /\ timeline = d.timeline
    /\ mongoUsers = d.mongoUsers /\ neoNodes = d.neoNodes
    /\ neoEdges = d.neoEdges /\ mongoFollows = d.mongoFollows
    /\ neo4jUp = d.neo4jUp /\ likeKeys = d.likeKeys /\ likeVal = d.likeVal
    /\ likeFlag = d.likeFlag /\ likesLog = d.likesLog /\ shadowQ = d.shadowQ
    /\ clock = d.clock /\ usedIds = d.usedIds
    /\ req = [s \in Slots |-> NoReq]

\* the server after start-up with every user signed up and no reel, no follow; no
\* call fails; the requests arrive one after the other
Init ==
    /\ InitStores(SignedUp)
    /\ run = [faulty |-> {}, par |-> 1, overlap |-> {}, eager |-> FALSE]

Spec == Init /\ [][FeedNext]_vars

\* a fresh deployment: nobody has signed up yet, and the handlers serve any user id;
\* no call fails; the requests arrive one after the other
InitGraph ==
    /\ InitStores(EmptyDB)
    /\ run = [faulty |-> {}, par |-> 1, overlap |-> {}, eager |-> FALSE]

SpecGraph == InitGraph /\ [][GraphNext]_vars

\* every user signed up; the server runs with Neo4j connected or without it; the
\* calls to Neo4j and to MongoDB and the timeline INSERTs of follow and createPost
\* may throw; the requests arrive one after the other
InitFaults ==
    /\ \E up \in BOOLEAN : InitStores([SignedUp EXCEPT !.neo4jUp = up])
    /\ run = [faulty |-> {"neo4j", "mongo", "fanout"}, par |-> 1, overlap |-> {},
              eager |-> FALSE]

SpecFaults == InitFaults /\ [][FaultsNext]_vars

\* a server that is started more than once; no call fails; the requests arrive one
\* after the other
InitEnrich ==
    /\ InitStores(SignedUp)
    /\ run = [faulty |-> {}, par |-> 1, overlap |-> {}, eager |-> FALSE]

SpecEnrich == InitEnrich /\ [][EnrichNext]_vars

\* a run in which the timeline INSERTs of follow and createPost may fail (the
\* handlers log the error and go on), so that a user can follow authors with reels
\* and have an empty partition; two getFeed requests may overlap
InitRepair ==
    /\ InitStores(SignedUp)
    /\ run = [faulty |-> {"fanout"}, par |-> MaxInFlight, eager |-> FALSE,
              overlap |-> {"getFeed"}]

SpecRepair == InitRepair /\ [][RepairNext]_vars

\* the counter cache: createPost, like, unlike and getCount overlap freely
InitLikes ==
    /\ InitStores(SignedUp)
    /\ run = [faulty |-> {}, par |-> MaxInFlight, eager |-> TRUE,
              overlap |-> {"createPost", "like", "unlike", "getCount"}]

SpecLikes == InitLikes /\ [][LikesNext]_vars

\* the counter cache with an unreliable likes collection: the un-awaited insertOne
\* and deleteOne may fail, and they complete at any time after the reply, in any
\* order; the requests arrive one after the other
InitShadow ==
    /\ InitStores(SignedUp)
    /\ run = [faulty |-> {"shadow"}, par |-> 1, overlap |-> {}, eager |-> FALSE]

SpecShadow == InitShadow /\ [][LikesNext]_vars

\* the suggestion runs: every id has signed up, or every id but u5 (follow accepts
\* ids without a user document); the server runs with Neo4j connected or without it,
\* and the friends-of-friends query may throw; the requests arrive one after the other
InitSuggest ==
    /\ \E up \in BOOLEAN, reg \in {Crowd, Crowd \ {"u5"}} :
          InitStores([EmptyDB EXCEPT !.mongoUsers = reg, !.neoNodes = reg, !.neo4jUp = up])
    /\ run = [faulty |-> {"traverse"}, par |-> 1, overlap |-> {}, eager |-> FALSE]

SpecSuggest == InitSuggest /\ [][SuggestNext]_vars

\* feeds read page by page; no call fails; the requests arrive one after the other
InitPages ==
    /\ InitStores(SignedUp)
    /\ run = [faulty |-> {}, par |-> 1, overlap |-> {}, eager |-> FALSE]

SpecPages == InitPages /\ [][PagesNext]_vars

\* createPost, like and getCount overlap freely; there is no unlike, no flag expires
\* and no call fails
InitRace ==
    /\ InitStores(SignedUp)
    /\ run = [faulty |-> {}, par |-> MaxInFlight, eager |-> TRUE,
              overlap |-> {"createPost", "like", "getCount"}]

SpecRace == InitRace /\ [][RaceNext]_vars

\* likes and counts one after the other, with flags that expire; there is no unlike
\* and no call fails
InitExpiry ==
    /\ InitStores(SignedUp)
    /\ run = [faulty |-> {}, par |-> 1, overlap |-> {}, eager |-> TRUE]

SpecExpiry == InitExpiry /\ [][ExpiryNext]_vars

\* ----------------------------------------------------------------- claims
\* the reels whose counter createPost has initialised
Counted == {p \in PostIds : ReelFound(DB, p) /\ RedisHas(DB, p)}

\* C1: with no other request running, two successive like(p,a) calls have the effect
\* of one; when a had not liked p they raise p's counter by exactly 1 in total
\* (getCount = previous + 1), and a following unlike(p,a) returns the counter and
\* getCount to their value before the first like.
C1_LikeTwiceThenUnlike ==
    Quiet =>
        \A p \in Counted, a \in Fans :
            LET l1 == Run(StartLike(DB, p, a))
                l2 == Run(StartLike(l1.d, p, a))
                g2 == Run(StartGetCount(l2.d, p, a))
                u3 == Run(StartUnlike(l2.d, p, a))
                g3 == Run(StartGetCount(u3.d, p, a))
                g0 == Run(StartGetCount(DB, p, a))
            IN /\ l2.d.likeVal = l1.d.likeVal /\ l2.d.likeFlag = l1.d.likeFlag
               /\ l2.q.status = 200
               /\ <<p, a>> \notin likeFlag =>
                    /\ l2.d.likeVal[p] = likeVal[p] + 1
                    /\ g2.q.count = g0.q.count + 1 /\ g2.q.liked
                    /\ u3.d.likeVal[p] = likeVal[p]
                    /\ g3.q.count = g0.q.count /\ ~g3.q.liked

\* the scenario of C1: a reel with counter 0 that a has not liked; like, like,
\* getCount returns 1; unlike, getCount returns 0
C1_Witness ==
    /\ Quiet
    /\ \E p \in Counted, a \in Fans :
          LET l2 == Run(StartLike(Run(StartLike(DB, p, a)).d, p, a))
              u3 == Run(StartUnlike(l2.d, p, a))
          IN /\ <<p, a>> \notin likeFlag /\ likeVal[p] = 0
             /\ l2.q.msg = "Already liked"
             /\ Run(StartGetCount(l2.d, p, a)).q.count = 1
             /\ Run(StartGetCount(u3.d, p, a)).q.count = 0

\* C2: the engagement counter is never negative: neither the value stored for a reel
\* nor the likesCount that getCount returns is below zero, in any interleaving of
\* createPost, like and unlike.
C2_CounterNonNegative ==
    /\ \A p \in PostIds : RedisHas(DB, p) => likeVal[p] >= 0
    /\ \A s \in Slots : req[s].kind = "getCount" /\ req[s].hasCount => req[s].count >= 0

\* the actors that have liked reel p or have a like(p, .) request under way
Likers(p) ==
    {a \in Fans : \/ <<p, a>> \in likeFlag
                  \/ \E s \in InFlight : req[s].kind = "like" /\ req[s].reel = p /\ req[s].a = a}

\* C3: overlapping like(p,a) calls by one actor raise the counter of p by exactly 1:
\* the counter of a reel never exceeds the number of distinct actors that have liked
\* it or are liking it (unlike and createPost's reset only lower the counter).
C3_LikeOncePerActor ==
    \A p \in Counted : likeVal[p] <= Cardinality(Likers(p))

\* a reel's entries in a user's partition
EntriesOf(d, user, reel) == {e \in d.timeline : e.user_id = user /\ e.reel_id = reel}

\* the users with a follow edge to author in either store
Followers(d, author) == MongoFollowers(d, author) \cup NeoFollowers(d, author)

\* a createPost request that has replied 200
Posted(s) == req[s].kind = "createPost" /\ req[s].pc = "done" /\ req[s].status = 200

Repairing(s) == req[s].kind = "getFeed" /\ req[s].cur # NoUser

\* such a request has replied 200
Repaired(s) == Repairing(s) /\ req[s].pc = "done" /\ req[s].status = 200

\* the author recorded in the reels table
AuthorOf(d, reel) == (CHOOSE x \in d.reels : x.reel_id = reel).user_id

\* C5: a getFeed that found the owner's partition empty and the following set
\* non-empty returns only reels authored by users the owner follows, in strictly
\* descending created_at order, equal timestamps in ascending reel id order, and no
\* more than the page size.
C5_RepairedFeed ==
    \A s \in Slots : Repaired(s) =>
        LET refs == req[s].refs
        IN /\ Len(refs) <= req[s].limit
           /\ \A i \in DOMAIN refs :
                /\ refs[i].author_id \in MongoFollowing(DB, req[s].a)
                /\ AuthorOf(DB, refs[i].reel_id) = refs[i].author_id
           /\ \A i, j \in DOMAIN refs : i < j =>
                \/ refs[i].created_at > refs[j].created_at
                \/ refs[i].created_at = refs[j].created_at /\ refs[i].reel_id < refs[j].reel_id

\* u1 follows u2, who has two reels of different times, and u3, who has none; the
\* repaired feed of u1 lists both reels, the later one first
C5_Witness ==
    \E s \in Slots :
        /\ Repaired(s)
        /\ MongoFollowing(DB, req[s].a) = {"u2", "u3"}
        /\ UserReelsQuery(DB, "u3", RepairLimit) = <<>>
        /\ Len(req[s].refs) = 2
        /\ req[s].refs[1].created_at > req[s].refs[2].created_at
        /\ \A i \in 1..2 : req[s].refs[i].author_id = "u2"

\* the rows of a user's partition
Partition(d, user) == {e \in d.timeline : e.user_id = user}

\* the stores after one getFeed of owner that runs alone from an empty partition
Single(owner) ==
    Run(StartGetFeed([DB EXCEPT !.timeline = @ \ Partition(DB, owner)], owner, DefaultLimit)).d

\* a repairing getFeed that has made all its INSERTs
Backfilled(s) == Repairing(s) /\ req[s].pc \in {"feedRequery", "feedEnrich", "done"}

\* C6: once a getFeed that found the partition empty has run its backfill, the
\* owner's partition is the one a single getFeed would have produced alone, however
\* another getFeed of the same owner interleaves with it.
C6_RepairConverges ==
    \A s \in Slots : Backfilled(s) =>
        Partition(DB, req[s].a) = Partition(Single(req[s].a), req[s].a)

\* two overlapping getFeed requests of one owner have both found the partition
\* empty and both run the backfill, which wrote two rows
C6_Witness ==
    \E s, t \in Slots :
        /\ s # t /\ req[s].a = req[t].a
        /\ Backfilled(s) /\ Backfilled(t)
        /\ Cardinality(Partition(DB, req[s].a)) = 2

\* the stores with isNeo4jConnected() false
Off(d) == [d EXCEPT !.neo4jUp = FALSE]

\* what a run keeps outside Neo4j
Durable(d) == [d EXCEPT !.neo4jUp = FALSE, !.neoNodes = {}, !.neoEdges = [p \in Pairs |-> 0]]

\* the same reply and the same stores outside Neo4j
Same(x, y) == Durable(x.d) = Durable(y.d) /\ [x.q EXCEPT !.neo = FALSE] = [y.q EXCEPT !.neo = FALSE]

\* C7: a call gives the same reply and leaves the same timeline partitions and the
\* same followers and following lists (which are read from MongoDB) whether Neo4j is
\* connected or not; as the handlers read nothing of Neo4j when it is disconnected,
\* the stores of the two runs outside Neo4j stay equal call after call.
C7_BackendIndependent ==
    Quiet =>
        /\ \A a \in Fans, b \in Users :
              /\ Same(Run(StartFollow(DB, a, b)), Run(StartFollow(Off(DB), a, b)))
              /\ Same(Run(StartUnfollow(DB, a, b)), Run(StartUnfollow(Off(DB), a, b)))
        /\ \A a \in Users, limit \in Limits :
              Same(Run(StartGetFeed(DB, a, limit)), Run(StartGetFeed(Off(DB), a, limit)))
        /\ \A a \in Users, id \in PostIds \ usedIds :
              Same(Run(StartCreatePost(DB, a, TRUE, id, clock)),
                   Run(StartCreatePost(Off(DB), a, TRUE, id, clock)))

\* C8: when createPost has returned, the new reel is in the partition of every user
\* with a follow edge to the author in MongoDB or in Neo4j.
C8_EitherStoreFanOut ==
    \A s \in Slots : Posted(s) =>
        \A u \in Followers(DB, req[s].a) : EntriesOf(DB, u, req[s].reel) # {}

\* C9: follow with followerId equal to the followed user's id replies 400 before its
\* first store call and leaves every store as it was.
C9_SelfFollowRejected ==
    /\ \A s \in Slots : req[s].kind = "follow" /\ req[s].a = req[s].b =>
          req[s].pc = "done" /\ req[s].status = 400
    /\ \A a \in Users : Run(StartFollow(DB, a, a)).d = DB

\* a user who follows somebody has tried to follow itself and got the 400
C9_Witness ==
    \E s \in Slots :
        /\ req[s].kind = "follow" /\ req[s].a = req[s].b /\ req[s].a # NoUser
        /\ req[s].msg = "Cannot follow yourself"
        /\ MongoFollowing(DB, req[s].a) # {}

\* C10: no store ever holds more than one edge for a pair, and a second follow(a,b)
\* after a first one changes neither the edges, nor the followers and following
\* counts, nor the partition of a.
C10_FollowIdempotent ==
    /\ \A p \in Pairs : neoEdges[p] <= 1 /\ mongoFollows[p] <= 1
    /\ Quiet =>
          \A a \in Fans : \A b \in Users \ {a} :
              LET f1 == Run(StartFollow(DB, a, b))
                  f2 == Run(StartFollow(f1.d, a, b))
              IN /\ f2.q.status = 200
                 /\ f2.d.neoEdges = f1.d.neoEdges /\ f2.d.mongoFollows = f1.d.mongoFollows
                 /\ f1.d.mongoFollows[<<a, b>>] = 1 /\ f1.d.neoEdges[<<a, b>>] = 1
                 /\ FollowersCount(f2.d, b) = FollowersCount(f1.d, b)
                 /\ FollowingCount(f2.d, a) = FollowingCount(f1.d, a)
                 /\ Partition(f2.d, a) = Partition(f1.d, a)

\* a follows b, who has reels that the follow has written to the partition of a; a
\* further follow(a,b) leaves the stores as they are
C10_Witness ==
    /\ Quiet
    /\ \E a \in Fans : \E b \in Users \ {a} :
          /\ mongoFollows[<<a, b>>] = 1
          /\ \E e \in Partition(DB, a) : e.author_id = b
          /\ Run(StartFollow(DB, a, b)).d = DB

\* a follow or unfollow request of a follower for another user
Graphing(s, kind) == req[s].kind = kind /\ req[s].a \notin {NoUser, req[s].b}

\* C11: when the Neo4j MERGE of a follow throws, or Neo4j is not connected, the
\* follow goes on to the MongoDB upsert, which writes the edge, and replies 200.
C11_FollowSurvivesNeo ==
    /\ \A s \in Slots : Graphing(s, "follow") /\ req[s].pc = "followNeo" =>
          LET r == FollowNeo(DB, req[s], FALSE)
              fin == Run(r)
          IN /\ r.q.pc = "followMongo" /\ r.d = DB
             /\ fin.q.status = 200 /\ fin.d.mongoFollows[<<req[s].a, req[s].b>>] = 1
    /\ Quiet =>
          \A a \in Fans : \A b \in Users \ {a} :
              LET fin == Run(StartFollow(Off(DB), a, b))
              IN /\ fin.q.status = 200 /\ fin.d.mongoFollows[<<a, b>>] = 1
                 /\ fin.d.neoEdges = neoEdges
    /\ \A s \in Slots : Graphing(s, "follow") /\ req[s].pc = "done" /\ req[s].status = 200 =>
          mongoFollows[<<req[s].a, req[s].b>>] = 1

\* a follow has replied 200 after its Neo4j MERGE threw: the edge is in MongoDB and
\* not in Neo4j
C11_Witness ==
    \E s \in Slots :
        /\ Graphing(s, "follow") /\ req[s].pc = "done" /\ req[s].status = 200 /\ req[s].neo
        /\ mongoFollows[<<req[s].a, req[s].b>>] = 1
        /\ neoEdges[<<req[s].a, req[s].b>>] = 0

\* C12: a failure of the MongoDB edge write of a follow is not propagated to the
\* caller: every follow of a follower for another user replies 200.
C12_ReplicaWriteNotPropagated ==
    \A s \in Slots : Graphing(s, "follow") /\ req[s].pc = "done" => req[s].status = 200

\* C13: in an unfollow, a Neo4j DELETE that throws does not keep the MongoDB delete
\* from being made and applied, and the Neo4j DELETE has been made and applied by the
\* time the MongoDB delete runs, whatever the outcome of that one.
C13_UnfollowBothBackends ==
    \A s \in Slots : Graphing(s, "unfollow") /\ req[s].pc = "unfollowNeo" =>
        \A ok1, ok2 \in BOOLEAN :
            LET e == <<req[s].a, req[s].b>>
                r1 == UnfollowNeo(DB, req[s], ok1)
                r2 == UnfollowMongo(r1.d, r1.q, ok2)
            IN /\ r1.q.pc = "unfollowMongo"
               /\ ok1 => r2.d.neoEdges[e] = 0
               /\ ok2 => r2.d.mongoFollows[e] = 0
               /\ r2.q.pc = "done" /\ r2.q.status = IF ok2 THEN 200 ELSE 500

\* an unfollow has replied 200 after its Neo4j DELETE threw: the edge is gone from
\* MongoDB and still in Neo4j
C13_Witness ==
    \E s \in Slots :
        /\ Graphing(s, "unfollow") /\ req[s].pc = "done" /\ req[s].status = 200 /\ req[s].neo
        /\ mongoFollows[<<req[s].a, req[s].b>>] = 0
        /\ neoEdges[<<req[s].a, req[s].b>>] = 1

\* the reels of b, newest first, as far as follow's backfill reads them
Backfill(d, b) == UserReelsQuery(d, b, BackfillLimit)

\* C14: after follow(a,b), where b has reels and the partition of a was empty,
\* getFeed(a) returns the reels of b that the backfill read, newest first, authored
\* by b: all of them when they fit the page, the first limit of them otherwise.
C14_FollowThenFeed ==
    Quiet =>
        \A a \in Fans : \A b \in Users \ {a} : \A limit \in Limits :
            Partition(DB, a) = {} /\ Backfill(DB, b) # <<>> =>
                LET f == Run(StartFollow(DB, a, b))
                    g == Run(StartGetFeed(f.d, a, limit))
                IN /\ f.q.status = 200 /\ g.q.status = 200
                   /\ g.q.refs = MapRefs(Take(Backfill(DB, b), limit), b)
                   /\ Len(Backfill(DB, b)) <= limit =>
                        \A i \in DOMAIN Backfill(DB, b) :
                            \E j \in DOMAIN g.q.refs :
                                g.q.refs[j].reel_id = Backfill(DB, b)[i].reel_id

\* b has two reels, the partition of a is empty; after follow(a,b) the feed of a
\* lists both
C14_Witness ==
    /\ Quiet
    /\ \E a \in Fans : \E b \in Users \ {a} :
          /\ Partition(DB, a) = {} /\ Len(Backfill(DB, b)) = 2
          /\ Len(Run(StartGetFeed(Run(StartFollow(DB, a, b)).d, a, DefaultLimit)).q.refs) = 2

\* C14 as stated: after follow(a,b), where b has reels and the partition of a was
\* empty, getFeed(a) includes every reel of b that the backfill read, whatever the
\* page size of the request.
C14_EveryPostInFeed ==
    Quiet =>
        \A a \in Fans : \A b \in Users \ {a} : \A limit \in Limits :
            Partition(DB, a) = {} /\ Backfill(DB, b) # <<>> =>
                LET g == Run(StartGetFeed(Run(StartFollow(DB, a, b)).d, a, limit))
                IN \A i \in DOMAIN Backfill(DB, b) :
                      \E j \in DOMAIN g.q.refs : g.q.refs[j].reel_id = Backfill(DB, b)[i].reel_id

\* the references are in created_at-descending, reel_id-ascending order
Newest(refs) ==
    \A i, j \in DOMAIN refs : i < j =>
        \/ refs[i].created_at > refs[j].created_at
        \/ refs[i].created_at = refs[j].created_at /\ refs[i].reel_id < refs[j].reel_id

\* the owner has neither timeline rows nor follows
SelfView(d, owner) == Partition(d, owner) = {} /\ MongoFollowing(d, owner) = {}

\* C15: when the owner's partition and following set are empty, getFeed returns the
\* owner's own reels, newest first, at most limit of them, each authored by the
\* owner, and leaves every store as it was.
C15_SelfView ==
    /\ Quiet =>
          \A a \in Users, limit \in Limits : SelfView(DB, a) =>
              LET g == Run(StartGetFeed(DB, a, limit))
              IN /\ g.d = DB /\ g.q.status = 200
                 /\ g.q.refs = MapRefs(Take(Ordered({e \in userReels : e.user_id = a}), limit), a)
                 /\ Len(g.q.refs) <= limit /\ Newest(g.q.refs)
                 /\ \A i \in DOMAIN g.q.refs :
                       g.q.refs[i].author_id = a /\ AuthorOf(DB, g.q.refs[i].reel_id) = a
    /\ \A s \in Slots :
          req[s].kind = "getFeed" /\ req[s].pc = "done" /\ req[s].status = 200
              /\ SelfView(DB, req[s].a) =>
              \A i \in DOMAIN req[s].refs : req[s].refs[i].author_id = req[s].a

\* a user with two reels, no follows and an empty partition has read its feed and
\* got both reels
C15_Witness ==
    \E s \in Slots :
        /\ req[s].kind = "getFeed" /\ req[s].pc = "done" /\ req[s].status = 200
        /\ SelfView(DB, req[s].a)
        /\ Len(req[s].refs) = 2 /\ Newest(req[s].refs)
        /\ \A i \in 1..2 : req[s].refs[i].author_id = req[s].a

\* the user_reels rows that getFeed can draw on when the owner's partition is
\* empty: those of the followed users, or the owner's own when it follows nobody
Sources(d, owner) ==
    LET from == IF MongoFollowing(d, owner) = {} THEN {owner} ELSE MongoFollowing(d, owner)
    IN {e \in d.userReels : e.user_id \in from}

\* C16: when the owner's partition is empty and neither the followed users nor, for
\* an owner without follows, the owner has any reel, getFeed replies 200 with an
\* empty list.
C16_EmptyFeedIsSuccess ==
    Quiet =>
        \A a \in Users, limit \in Limits :
            Partition(DB, a) = {} /\ Sources(DB, a) = {} =>
                LET g == Run(StartGetFeed(DB, a, limit))
                IN g.q.status = 200 /\ g.q.refs = <<>> /\ g.q.msg = "No reels found"

\* a user that follows somebody has read its feed, the repair found no reel, and
\* the reply is 200 with no reels
C16_Witness ==
    \E s \in Slots :
        /\ req[s].kind = "getFeed" /\ req[s].pc = "done" /\ Repairing(s)
        /\ req[s].status = 200 /\ req[s].refs = <<>> /\ req[s].msg = "No reels found"
        /\ Partition(DB, req[s].a) = {}

\* the orders in which the lookups of n references can complete
Orders(n) == {f \in [1..n -> 1..n] : \A i, j \in 1..n : f[i] = f[j] => i = j}

\* the lookups of a request complete in the given order, none throws
RECURSIVE EnrichIn(_, _)
EnrichIn(r, order) ==
    IF order = <<>> THEN r
    ELSE EnrichIn(FeedEnrich(r.d, r.q, TRUE, Head(order)), Tail(order))

\* the references whose reel is in the reels table, in their order
Resolving(d, refs) == SelectSeq(refs, LAMBDA x : ReelFound(d, x.reel_id))

\* C17: for every order in which the lookups of the enrichment complete, the page is
\* the sequence of references restricted to those whose reel is found, in the same
\* order, and the reply is 200 also when a reel is not found.
C17_EnrichKeepsOrder ==
    /\ \A s \in Slots :
          req[s].kind = "getFeed" /\ req[s].pc = "feedEnrich"
              /\ req[s].todo = DOMAIN req[s].refs =>
                  \A order \in Orders(Len(req[s].refs)) :
                      LET fin == EnrichIn(Res(DB, req[s]), order)
                      IN /\ fin.q.pc = "done" /\ fin.q.status = 200
                         /\ fin.q.refs = Resolving(DB, req[s].refs)
    /\ \A s \in Slots :
          req[s].kind = "getFeed" /\ req[s].pc = "done" /\ req[s].status = 200 =>
              /\ Newest(req[s].refs)
              /\ \A i \in DOMAIN req[s].refs : ReelFound(DB, req[s].refs[i].reel_id)

\* the partition of the owner holds two references, one of a reel that is no longer
\* in the reels table; the feed of the owner has replied 200 with the other one
C17_Witness ==
    \E s \in Slots :
        /\ req[s].kind = "getFeed" /\ req[s].pc = "done" /\ req[s].status = 200
        /\ req[s].limit = DefaultLimit
        /\ Cardinality(Partition(DB, req[s].a)) = 2
        /\ Len(req[s].refs) = 1

\* C18: createPost without a userId or without a mediaUrl replies 400 before its
\* first store call: reels, user_reels, timeline and the Redis counters are as
\* before, and no reel id has been drawn.
C18_PostValidation ==
    /\ \A a \in Users \cup {NoUser}, media \in BOOLEAN, id \in PostIds, now \in Times :
          a = NoUser \/ ~media =>
              LET r == StartCreatePost(DB, a, media, id, now)
              IN r.q.pc = "done" /\ r.q.status = 400 /\ r.d = DB
    /\ \A s \in Slots : req[s].kind = "createPost" /\ req[s].pc = "done" =>
          \/ req[s].status = 400 /\ req[s].reel = 0
          \/ req[s].status = 200 /\ req[s].a # NoUser /\ ReelFound(DB, req[s].reel)

\* a createPost has been rejected with 400 on a server that holds reels
C18_Witness ==
    \E s \in Slots :
        /\ req[s].kind = "createPost" /\ req[s].pc = "done" /\ req[s].status = 400
        /\ req[s].msg = "userId and mediaUrl are required"
        /\ reels # {} /\ timeline # {}

\* C19: a follow in which the follower or the followed user has no document in the
\* users collection replies 400 before any store call.
C19_UnknownUserRejected ==
    \A s \in Slots :
        req[s].kind = "follow" /\ (req[s].a \notin mongoUsers \/ req[s].b \notin mongoUsers) =>
            req[s].pc = "done" /\ req[s].status = 400

\* C20: when the timeline INSERT for one follower throws during createPost, the
\* handler goes on: every other follower still to be served gets its row, the reply
\* is 200 with the reel id; an INSERT of a row that is already there changes nothing
\* and is no error.
C20_BestEffortFanOut ==
    /\ \A s \in Slots : req[s].kind = "createPost" /\ req[s].pc = "postFan" =>
          \A x \in req[s].todo :
              LET r == PostFan(DB, req[s], FALSE, x)
                  fin == Run(r)
                  twice == PostFan(PostFan(DB, req[s], TRUE, x).d, req[s], TRUE, x)
              IN /\ r.d = DB /\ r.q.pc \in {"postFan", "postRedis"}
                 /\ fin.q.status = 200 /\ fin.q.reel = req[s].reel
                 /\ \A y \in req[s].todo \ {x} : EntriesOf(fin.d, y, req[s].reel) # {}
                 /\ twice.d = PostFan(DB, req[s], TRUE, x).d /\ twice.q.pc # "done"
    /\ \A s \in Slots : req[s].kind = "createPost" /\ req[s].pc = "done" => req[s].status = 200

\* createPost has replied 200 for an author with the same two followers in both
\* stores; the INSERT for one of them threw, the other has its row
C20_Witness ==
    \E s \in Slots :
        /\ Posted(s)
        /\ MongoFollowers(DB, req[s].a) = Fans /\ NeoFollowers(DB, req[s].a) = Fans
        /\ \E x \in Fans :
              /\ EntriesOf(DB, x, req[s].reel) = {}
              /\ \A y \in Fans \ {x} : EntriesOf(DB, y, req[s].reel) # {}

\* the documents of the likes collection for reel p
LogCount(d, p) == SumOver(d.likesLog, {k \in DOMAIN d.likesLog : k[1] = p})

\* C21: like does not depend on the likes collection: the insertOne is dispatched
\* and not awaited (at the reply it is pending and the collection is as before),
\* the reply is a success with the incremented counter and the (reel, actor) flag is
\* set; whether the write later succeeds, fails or stays pending changes neither
\* the counter nor the flag.
C21_LikeIgnoresShadowLog ==
    /\ \A s \in Slots : At(s, "likeIncr") =>
          LikeIncr(DB, req[s], TRUE).q.count = ParseCount(DB, req[s].reel) + 1
    /\ \A s \in Slots : At(s, "likeSet") =>
          LET r == LikeSet(DB, req[s], TRUE)
              o == <<"insert", req[s].reel, req[s].a>>
          IN /\ r.q.pc = "done" /\ r.q.status = 200 /\ r.q.liked
             /\ r.q.hasCount /\ r.q.count = likeVal[req[s].reel]
             /\ <<req[s].reel, req[s].a>> \in r.d.likeFlag
             /\ r.d.likesLog = likesLog /\ r.d.shadowQ[o] = shadowQ[o] + 1
             /\ \A ok \in BOOLEAN :
                   LET d2 == ShadowWrite(r.d, o, ok)
                   IN d2.likeVal = r.d.likeVal /\ d2.likeFlag = r.d.likeFlag
    /\ \A s \in Slots :
          req[s].kind = "like" /\ req[s].pc = "done" /\ req[s].hasCount =>
              /\ req[s].status = 200
              /\ <<req[s].reel, req[s].a>> \in likeFlag
              /\ likeVal[req[s].reel] = req[s].count

\* a like that was answered with the counter at 1 and the flag set, whose insertOne
\* has failed: nothing is pending and the collection has no document for the pair
C21_Witness ==
    \E s \in Slots :
        /\ req[s].kind = "like" /\ req[s].pc = "done" /\ req[s].status = 200
        /\ req[s].hasCount /\ req[s].count = 1
        /\ <<req[s].reel, req[s].a>> \in likeFlag
        /\ Pending(DB) = 0 /\ likesLog[<<req[s].reel, req[s].a>>] = 0

\* C22: a like(p,a) call made while the (p,a) flag is present leaves the counter as
\* it is and returns the current count of p to the caller.
C22_AlreadyLikedReturnsCount ==
    \A s \in Slots :
        req[s].kind = "like" /\ req[s].pc = "done" /\ req[s].msg = "Already liked" =>
            /\ req[s].status = 200
            /\ req[s].hasCount /\ req[s].count = ParseCount(DB, req[s].reel)

\* C23: at quiescence (no request in flight, no likes write pending, none failed, no
\* flag expired) the likes collection holds, for every reel that createPost has
\* counted, as many documents as the counter says.
C23_ShadowLogMatchesCounter ==
    Quiet /\ Pending(DB) = 0 =>
        \A p \in Counted : LogCount(DB, p) = likeVal[p]

\* the reels of the users that owner follows that have no row in owner's partition
Missing(d, owner) ==
    {r \in d.userReels : r.user_id \in MongoFollowing(d, owner)
                            /\ EntriesOf(d, owner, r.reel_id) = {}}

\* C24: read-repair is triggered only by an empty partition: every step of a getFeed
\* that found a row in the owner's partition leaves the timeline table as it is, and
\* from the timeline query the request goes to the enrichment, not to the repair,
\* whatever reels of followed users the partition lacks.
C24_RepairOnlyWhenEmpty ==
    [][\A s \in Slots :
          /\ req[s].kind = "getFeed" /\ req[s].cur = NoUser /\ req'[s] # req[s]
          /\ \/ req[s].pc = "feedQuery" /\ Partition(DB, req[s].a) # {}
             \/ req[s].pc = "feedEnrich"
          => /\ timeline' = timeline
             /\ req'[s].cur = NoUser /\ req'[s].pc \in {"feedEnrich", "done"}]_vars

\* a getFeed has replied with the rows of a partition that lacks a reel of a
\* followed user, and the reel is still missing
C24_Witness ==
    \E s \in Slots :
        /\ req[s].kind = "getFeed" /\ req[s].pc = "done" /\ req[s].status = 200
        /\ req[s].cur = NoUser /\ req[s].refs # <<>>
        /\ Partition(DB, req[s].a) # {}
        /\ Missing(DB, req[s].a) # {}

\* C25: when Neo4j is not connected, or its follower lookup throws during createPost,
\* the followers are read from MongoDB's follows collection, every follower recorded
\* there gets its timeline row (and nobody else gets one) and createPost replies 200.
C25_FallbackFanOut ==
    \A s \in Slots :
        /\ req[s].kind = "createPost" /\ req[s].pc = "postUserReel" =>
              (~req[s].neo => PostUserReel(DB, req[s], TRUE).q.pc = "postMongo")
        /\ req[s].kind = "createPost" /\ req[s].pc \in {"postNeo", "postMongo"} =>
              LET r == IF req[s].pc = "postNeo" THEN PostNeo(DB, req[s], FALSE)
                       ELSE Res(DB, req[s])
                  fin == Run(r)
              IN /\ r.q.pc = "postMongo"
                 /\ fin.q.pc = "done" /\ fin.q.status = 200
                 /\ \A u \in Users :
                       Cardinality(EntriesOf(fin.d, u, req[s].reel))
                           = IF u \in MongoFollowers(DB, req[s].a) THEN 1 ELSE 0

\* createPost has returned with Neo4j connected and knowing one follower of the
\* author, MongoDB knowing two, and both have the reel: the Neo4j lookup failed
C25_Witness ==
    \E s \in Slots :
        /\ Posted(s) /\ req[s].neo
        /\ Cardinality(NeoFollowers(DB, req[s].a)) = 1
        /\ MongoFollowers(DB, req[s].a) = Fans
        /\ \A u \in Fans : EntriesOf(DB, u, req[s].reel) # {}

\* a suggestions request answered from MongoDB's follows collection
Fallback(s) ==
    /\ req[s].kind = "suggest" /\ req[s].pc = "done" /\ req[s].status = 200
    /\ req[s].via = "mongo"

\* the edges from a member of F to user c
EdgesFrom(d, F, c) == SumOver(d.mongoFollows, {p \in Pairs : p[1] \in F /\ p[2] = c})

\* C26: the suggestions computed from MongoDB: with F the users the caller follows,
\* every entry is a user followed by at least one member of F, is neither the caller
\* nor a member of F, carries the number of edges from F to it as its count; the
\* entries are ordered by descending count and are at most `limit`.
C26_FallbackSuggestions ==
    \A s \in Slots : Fallback(s) =>
        LET sug == req[s].suggestions
            F == MongoFollowing(DB, req[s].a)
        IN /\ Len(sug) <= req[s].limit
           /\ \A i \in DOMAIN sug :
                /\ sug[i].id \in Crowd \ (F \cup {req[s].a})
                /\ sug[i].count > 0
                /\ sug[i].count = EdgesFrom(DB, F, sug[i].id)
           /\ \A i, j \in DOMAIN sug : i < j => sug[i].count >= sug[j].count

\* the author-index row of a reel
Indexed(d, author, reel) == \E r \in d.userReels : r.user_id = author /\ r.reel_id = reel

\* the createPost in slot s makes a step
PostMoves(s) == req[s].kind = "createPost" /\ req[s].pc # "done" /\ req'[s] # req[s]

\* C27: createPost replies only after the reels row and the user_reels row are
\* written, a timeline INSERT has been attempted for every follower that was
\* resolved, one follower per step of the loop, and the counter is set; once it has
\* replied it makes no further INSERT.
C27_ReplyAfterWrites ==
    /\ [](\A s \in Slots : req[s].kind = "createPost" =>
            /\ req[s].pc = "postNeo" /\ NeoFollowers(DB, req[s].a) # {} =>
                  LET q1 == PostNeo(DB, req[s], TRUE).q
                  IN q1.pc = "postFan" /\ q1.todo = NeoFollowers(DB, req[s].a)
            /\ req[s].pc = "postMongo" /\ MongoFollowers(DB, req[s].a) # {} =>
                  LET q1 == PostMongo(DB, req[s], TRUE).q
                  IN q1.pc = "postFan" /\ q1.todo = MongoFollowers(DB, req[s].a)
            /\ req[s].pc \in {"postNeo", "postMongo", "postFan", "postRedis"} \/ Posted(s) =>
                  ReelFound(DB, req[s].reel) /\ Indexed(DB, req[s].a, req[s].reel)
            /\ req[s].pc = "postRedis" \/ Posted(s) => req[s].todo = {}
            /\ Posted(s) => RedisHas(DB, req[s].reel) /\ ~ENABLED PostFanStep(s))
    /\ [][\A s \in Slots : PostMoves(s) =>
            IF req[s].pc = "postFan"
            THEN \E f \in req[s].todo :
                    /\ req'[s].todo = req[s].todo \ {f}
                    /\ timeline' \in {timeline,
                                       TimelineInsert(DB, f, req[s].reel, req[s].a, req[s].now).timeline}
                    /\ req'[s].pc = IF req'[s].todo = {} THEN "postRedis" ELSE "postFan"
            ELSE timeline' = timeline]_vars

\* createPost has replied for an author with two followers: the rows and the counter
\* are there and no follower is left to serve
C27_Witness ==
    \E s \in Slots :
        /\ Posted(s) /\ Cardinality(MongoFollowers(DB, req[s].a)) = 2
        /\ ReelFound(DB, req[s].reel) /\ Indexed(DB, req[s].a, req[s].reel)
        /\ RedisHas(DB, req[s].reel) /\ req[s].todo = {}
        /\ \E u \in Fans : EntriesOf(DB, u, req[s].reel) # {}

\* the k-th consecutive slice of n rows
Slice(rows, k, n) == SubSeq(rows, (k - 1) * n + 1, Min(k * n, Len(rows)))

\* C28: the feed endpoint paginates: for owner and limit n, the request for page k
\* returns the k-th consecutive slice of n entries of the owner's ordered partition.
C28_PageIsKthSlice ==
    \A s \in Slots :
        /\ req[s].kind = "getFeed" /\ req[s].pc = "done" /\ req[s].status = 200
        /\ Partition(DB, req[s].a) # {}
        => req[s].refs
             = TimelineRefs(Slice(Ordered(Partition(DB, req[s].a)), req[s].page, req[s].limit))

\* the user_reels rows of a user
Own(d, user) == {e \in d.userReels : e.user_id = user}

\* C29: getFeed returns at most `limit` references on every path: the read of the
\* partition, the second read after read-repair, and the owner's own reels when it
\* has neither rows nor follows.
C29_AtMostPageSize ==
    /\ \A s \in Slots :
          req[s].kind = "getFeed" /\ req[s].pc \in {"feedEnrich", "done"} =>
              Len(req[s].refs) <= req[s].limit
    /\ Quiet =>
          \A a \in Users, limit \in Limits :
              LET g == Run(StartGetFeed(DB, a, limit))
              IN g.q.status = 200 /\ Len(g.q.refs) <= limit

\* a getFeed with limit 1 has repaired a partition to two rows and returned one
\* reference, while another user with two reels of its own, no row and no follow
\* gets one of them with limit 1
C29_Witness ==
    /\ \E s \in Slots :
          /\ Repaired(s) /\ req[s].limit = 1 /\ Len(req[s].refs) = 1
          /\ Cardinality(Partition(DB, req[s].a)) = 2
    /\ \E a \in Users :
          /\ SelfView(DB, a) /\ Cardinality(Own(DB, a)) = 2
          /\ Len(Run(StartGetFeed(DB, a, 1)).q.refs) = 1

\* the unfollow in slot s makes a step
UnfollowMoves(s) == req[s].kind = "unfollow" /\ req[s].pc # "done" /\ req'[s] # req[s]

\* C30: unfollow(a,b) leaves every timeline partition unchanged: no step of the
\* handler writes the timeline table, the rows of b's reels stay in a's partition,
\* and getFeed(a) returns after the unfollow what it returned before.
C30_UnfollowKeepsTimeline ==
    /\ [][\A s \in Slots : UnfollowMoves(s) => timeline' = timeline]_vars
    /\ [](Quiet =>
            \A a \in Fans : \A b \in Users \ {a} : \A limit \in Limits :
                LET u == Run(StartUnfollow(DB, a, b))
                IN /\ u.q.status = 200 /\ u.d.timeline = timeline
                   /\ Partition(DB, a) # {} =>
                         Run(StartGetFeed(u.d, a, limit)).q.refs
                             = Run(StartGetFeed(DB, a, limit)).q.refs)

\* an unfollow has been answered, the follower no longer follows the author, and its
\* feed still returns a reel of the author
C30_Witness ==
    \E s \in Slots :
        /\ req[s].kind = "unfollow" /\ req[s].pc = "done" /\ req[s].status = 200
        /\ req[s].b \notin MongoFollowing(DB, req[s].a)
        /\ req[s].b \notin {x \in Crowd : neoEdges[<<req[s].a, x>>] > 0}
        /\ \E e \in Partition(DB, req[s].a) : e.author_id = req[s].b
        /\ \E i \in DOMAIN Run(StartGetFeed(DB, req[s].a, DefaultLimit)).q.refs :
              Run(StartGetFeed(DB, req[s].a, DefaultLimit)).q.refs[i].author_id = req[s].b

\* C31: no rollback of a partial createPost: once the reels row is written, a call
\* that throws (the user_reels INSERT, a follower lookup, a timeline INSERT, the
\* redis.set that makes the handler answer 500) leaves the reels row, the user_reels
\* row and every timeline row in place, and no step of createPost removes a row.
C31_NoRollback ==
    /\ [](\A s \in Slots :
            /\ req[s].kind = "createPost"
            /\ req[s].pc \in {"postUserReel", "postNeo", "postMongo", "postFan", "postRedis"}
            => \A x \in Picks(req[s]) :
                  LET r == Step(DB, req[s], FALSE, x)
                  IN /\ ReelFound(DB, req[s].reel)
                     /\ r.d.reels = reels /\ r.d.userReels = userReels
                     /\ r.d.timeline = timeline
                     /\ req[s].pc \in {"postUserReel", "postRedis"} =>
                           r.q.pc = "done" /\ r.q.status = 500)
    /\ [][\A s \in Slots : PostMoves(s) =>
            /\ reels \subseteq reels' /\ userReels \subseteq userReels'
            /\ timeline \subseteq timeline']_vars

\* a createPost for an author with two followers is about to set the counter; one
\* follower has its row, the INSERT for the other failed; should redis.set throw,
\* the reply is 500 and the rows stay
C31_Witness ==
    \E s \in Slots :
        /\ req[s].kind = "createPost" /\ req[s].pc = "postRedis"
        /\ Followers(DB, req[s].a) = Fans
        /\ Cardinality({u \in Fans : EntriesOf(DB, u, req[s].reel) # {}}) = 1
        /\ Indexed(DB, req[s].a, req[s].reel)
        /\ LET r == PostRedis(DB, req[s], FALSE)
           IN /\ r.q.status = 500 /\ ReelFound(r.d, req[s].reel)
              /\ \E u \in Fans : EntriesOf(r.d, u, req[s].reel) # {}

\* the actors whose flag for reel p is set
Flagged(d, p) == {a \in Fans : <<p, a>> \in d.likeFlag}

\* C32: a like is never lost to the initialisation of the counter: once createPost(p)
\* and the likes of p have completed, with no unlike and no expiry, getCount(p) is at
\* least 1 and equals the number of actors whose flag for p is set.
C32_LikeSurvivesInit ==
    Quiet /\ Pending(DB) = 0 =>
        \A p \in Counted : Flagged(DB, p) # {} =>
            LET g == Run(StartGetCount(DB, p, NoUser))
            IN g.q.count >= 1 /\ g.q.count = Cardinality(Flagged(DB, p))

\* the actors that have liked reel p at some time: a request under way, a flag, a
\* document in the likes collection or on its way there
Actors(p) ==
    Likers(p) \cup {a \in Fans : likesLog[<<p, a>>] > 0 \/ shadowQ[<<"insert", p, a>>] > 0}

\* C34: each actor contributes at most 1 to the counter of a reel, also across the
\* expiry of its flag: the counter never exceeds the number of actors that have
\* liked the reel.
C34_OncePerActorAcrossExpiry ==
    \A p \in PostIds : RedisHas(DB, p) => likeVal[p] <= Cardinality(Actors(p))

\* unfollow(a, b) run alone, its Neo4j DELETE succeeding or throwing as okNeo says
UnfollowWith(d, a, b, okNeo) ==
    LET r == StartUnfollow(d, a, b)
    IN Run(IF r.q.pc = "unfollowNeo" THEN UnfollowNeo(r.d, r.q, okNeo) ELSE r)

\* C33: after unfollow(a,b) has replied 200, a createPost of b that follows it writes
\* no row into a's partition, also when the Neo4j DELETE of the unfollow threw and
\* the MongoDB deleteOne succeeded.
C33_UnfollowedGetsNoPost ==
    Quiet =>
        \A a \in Fans, okNeo \in BOOLEAN, id \in PostIds \ usedIds :
            LET u == UnfollowWith(DB, a, "u3", okNeo)
                p == Run(StartCreatePost(u.d, "u3", TRUE, id, clock))
            IN u.q.status = 200 => EntriesOf(p.d, a, id) = {}

\* C35: reel records are durable across connect(): every reel that createPost has
\* written to the author index, and every reel a timeline row points to, is found
\* in the reels table, also after the server has started again.
C35_ReelsSurviveConnect ==
    /\ \A r \in userReels : ReelFound(DB, r.reel_id)
    /\ \A u \in Users : \A e \in Partition(DB, u) : ReelFound(DB, e.reel_id)

\* C36: a timeline partition holds at most one row per reel: the fan-out of
\* createPost, the backfill of follow and the read-repair of getFeed, in any order
\* and any number of times, write the same (owner, created_at, reel) key.
C36_OneEntryPerReel ==
    \A u \in Users, p \in PostIds : Cardinality(EntriesOf(DB, u, p)) <= 1

\* the backfill of a follow is about to insert a reel whose row is already in the
\* follower's partition, next to the row of another reel; the INSERT leaves one row
\* for the reel
C36_Witness ==
    \E s \in Slots :
        /\ At(s, "followInsert")
        /\ EntriesOf(DB, req[s].a, Head(req[s].rows).reel_id) # {}
        /\ Cardinality(Partition(DB, req[s].a)) = 2
        /\ Cardinality(EntriesOf(FollowInsert(DB, req[s], TRUE).d, req[s].a,
                                  Head(req[s].rows).reel_id)) = 1

\* the reels row that a timeline row refers to
Referent(d, e) ==
    {r \in d.reels : r.reel_id = e.reel_id /\ r.user_id = e.author_id
                        /\ r.created_at = e.created_at}

\* C37: with no restart of the server, every timeline row refers to a reel that is in
\* the reels table with the same author and the same created_at.
C37_EntriesResolve ==
    \A e \in timeline : Referent(DB, e) # {}

\* a getFeed has repaired a partition to two rows, of reels that a fan-out failed
\* to deliver, and both resolve
C37_Witness ==
    \E s \in Slots :
        /\ Repaired(s) /\ Cardinality(Partition(DB, req[s].a)) = 2
        /\ \A e \in Partition(DB, req[s].a) : Referent(DB, e) # {}

\* C38: no timeline partition contains a row whose author is the partition's owner.
C38_NoOwnPostInPartition ==
    \A e \in timeline : e.author_id # e.user_id

\* a user who is followed and has a reel in a follower's partition has read its own
\* reel through the self-view, and its own partition is empty
C38_Witness ==
    \E s \in Slots :
        /\ req[s].kind = "getFeed" /\ req[s].pc = "done" /\ req[s].status = 200
        /\ req[s].refs # <<>> /\ Partition(DB, req[s].a) = {}
        /\ \A i \in DOMAIN req[s].refs : req[s].refs[i].author_id = req[s].a
        /\ \E e \in timeline : e.author_id = req[s].a

====
